---- MODULE Spec2Model ----
(***************************************************************************)
(* Upload pipeline of the Google Ads conversion node                      *)
(* (nodes/GoogleAdsConversion/GoogleAdsConversion.node.ts): the error      *)
(* classifier, the retry engine and the batch coordinator.                 *)
(***************************************************************************)
EXTENDS Integers, Sequences, FiniteSets, TLC

VARIABLES
    rpc,        \* position of the executeWithRetry call
    attempt,    \* loop variable `attempt` of executeWithRetry
    lastError,  \* local `lastError` of executeWithRetry
    calls,      \* number of invocations of the wrapped operation
    delays,     \* the delays handed to sleep(), in order
    delay,      \* the delay of the sleep in progress
    raised,     \* the error executeWithRetry threw
    hinted,     \* every failure so far was a 429 carrying retry-after: 5
    diagnosed,  \* diagnosePermissionIssues was run
    perr,       \* classifier harness: the error under classification
    pattempt,   \* classifier harness: the retryAttempt argument
    pretry,     \* classifier harness: result of shouldRetry
    pparsed,    \* classifier harness: result of parseApiError
    pdelay,     \* classifier harness: result of calculateDelay
    ppc,        \* classifier harness: position
    items,               \* the input items of the run
    batchSize,           \* node parameter batchSize
    batchProcessingMode, \* node parameter batchProcessingMode
    bpc,                 \* position of processBatchItems
    i,                   \* loop variable of the build loop
    conversions,         \* built conversion records
    itemIndexMap,        \* item index of each built record
    returnData,          \* result records pushed so far
    batches,             \* groupIntoBatches(conversions, actualBatchSize)
    batchIndexMaps,      \* groupIntoBatches(itemIndexMap, actualBatchSize)
    batchIndex,          \* loop variable of the batch loop
    batchResponse,       \* response of the upload being handled
    runError,            \* the error processBatchItems threw
    enableBatchProcessing, \* node parameter enableBatchProcessing
    continueOnFail,      \* the host's continueOnFail()
    requests,            \* the upload requests sent so far, with their outcome
    params,              \* build harness: the node parameters of one item
    customerId,          \* build harness: the account identifier configured
    built,               \* build harness: result of buildConversionPayload
    cpc,                 \* build harness: position
    dateTimeValue,       \* item harness: node parameter conversionDateTime
    now,                 \* item harness: the clock, in milliseconds
    validation,          \* item harness: outcome of validateInputParameters
    conversionDateTime,  \* item harness: conversionDateTime of the built record
    uploaded,            \* item harness: uploadConversion was called
    vpc,                 \* item harness: position
    hinput,              \* hash harness: the string given to hashString
    hashed,              \* hash harness: the digests hashString gave
    hpc                  \* hash harness: position

rvars == <<rpc, attempt, lastError, calls, delays, delay, raised, hinted, diagnosed>>
pvars == <<perr, pattempt, pretry, pparsed, pdelay, ppc>>
bvars == <<items, batchSize, batchProcessingMode, bpc, i, conversions, itemIndexMap,
           returnData, batches, batchIndexMaps, batchIndex, batchResponse, runError,
           enableBatchProcessing, continueOnFail, requests>>
cvars == <<params, customerId, built, cpc>>
ivars == <<dateTimeValue, now, validation, conversionDateTime, uploaded, vpc>>
hvars == <<hinput, hashed, hpc>>

\* ------------------------------------------------------------------------
\* Bounds of the model
\* ------------------------------------------------------------------------

\* Math.random() is drawn from {0/RandSteps, ..., (RandSteps-1)/RandSteps}
RandSteps == 4

\* a run has at most MaxItems input items
MaxItems == 3

\* a partial-failure detail lists at most MaxErrors errors
MaxErrors == 2

\* longest string given to hashString
MaxText == 3

\* the clock runs over the seconds 1..MaxSeconds
MaxSeconds == 2

\* ------------------------------------------------------------------------
\* Errors
\* ------------------------------------------------------------------------

\* error.name / instanceof of a thrown value; HostError is whatever the
\* host's httpRequestWithAuthentication throws
TypedKinds == {"GoogleAdsAuthenticationError", "GoogleAdsValidationError",
               "GoogleAdsApiError", "GoogleAdsRateLimitError"}

\* parseInt of a non-numeric string
NaN == -1

\* One record shape for every thrown value.  0 / "" stand for an absent
\* (undefined) property, which is also how the code reads them (|| 0, || '').
\*   httpCode, status : error.httpCode, error.status
\*   code, errno      : error.code, error.errno
\*   header           : error.response.headers['retry-after']
\*   retryAfter       : error.retryAfter
\*   apiErrorCode     : GoogleAdsApiError.apiErrorCode
\*   hints            : the message carries the remediation suggestions
\*   origin           : who constructed the object
Err(kind, httpCode, status, code, errno, header, retryAfter, apiErrorCode, hints, origin) ==
    [kind |-> kind, httpCode |-> httpCode, status |-> status, code |-> code,
     errno |-> errno, header |-> header, retryAfter |-> retryAfter,
     apiErrorCode |-> apiErrorCode, hints |-> hints, origin |-> origin]

NoError == Err("none", 0, 0, "", "", "", 0, "", FALSE, "none")

GoogleAdsAuthenticationError(origin) ==
    Err("GoogleAdsAuthenticationError", 0, 0, "", "", "", 0, "", FALSE, origin)

GoogleAdsValidationError(origin) ==
    Err("GoogleAdsValidationError", 0, 0, "", "", "", 0, "", FALSE, origin)

GoogleAdsApiError(httpCode, apiErrorCode, hints, origin) ==
    Err("GoogleAdsApiError", httpCode, 0, "", "", "", 0, apiErrorCode, hints, origin)

GoogleAdsRateLimitError(retryAfter, origin) ==
    Err("GoogleAdsRateLimitError", 0, 0, "", "", "", retryAfter, "", FALSE, origin)

Statuses == {400, 401, 403, 404, 409, 429, 500, 501, 502, 503, 504}
TransportCodes == {"ECONNRESET", "ENOTFOUND", "ECONNREFUSED", "ETIMEDOUT", "EPIPE"}
Headers == {"", "5", "60", "soon"}

\* HTTP failures as the host reports them: a status in httpCode or in
\* status, and the response headers
HttpErrors ==
    { Err("HostError", s, 0, "", "", h, 0, "", FALSE, "operation") : s \in Statuses, h \in Headers }
    \cup { Err("HostError", 0, s, "", "", h, 0, "", FALSE, "operation") : s \in Statuses, h \in {"", "5"} }

\* failures without a response: a transport code in code or errno, or nothing
TransportErrors ==
    { Err("HostError", 0, 0, c, "", "", 0, "", FALSE, "operation") : c \in TransportCodes \cup {""} }
    \cup { Err("HostError", 0, 0, "", c, "", 0, "", FALSE, "operation") : c \in TransportCodes }

\* typed errors thrown by the wrapped operation itself
\* (getAuthenticatedHeaders throws GoogleAdsAuthenticationError)
ThrownTypedErrors ==
    { GoogleAdsAuthenticationError("operation"), GoogleAdsValidationError("operation"),
      GoogleAdsApiError(400, "ERR_INVALID_URL", FALSE, "operation"),
      GoogleAdsApiError(500, "SERVER_ERROR", FALSE, "operation"),
      GoogleAdsRateLimitError(0, "operation"), GoogleAdsRateLimitError(5, "operation") }

\* error objects that carry a status or a transport code besides their class
MixedErrors ==
    { Err(k, s, 0, c, "", "", 0, "", FALSE, "operation") :
        k \in {"HostError", "GoogleAdsAuthenticationError", "GoogleAdsValidationError"},
        s \in {0, 400, 401, 403, 404, 503},
        c \in {"", "ECONNRESET", "ETIMEDOUT"} }

Errors == HttpErrors \cup TransportErrors \cup ThrownTypedErrors \cup MixedErrors

\* ------------------------------------------------------------------------
\* Retry policy
\* ------------------------------------------------------------------------

maxRetries == 3
baseDelayMs == 1000
maxDelayMs == 30000
retryableStatusCodes == {429, 500, 502, 503, 504}
retryableErrors == {"ECONNRESET", "ENOTFOUND", "ECONNREFUSED", "ETIMEDOUT"}

\* a budget of four retries
getRetryConfig_FourRetries ==
    [maxRetries |-> maxRetries + 1, baseDelayMs |-> baseDelayMs, maxDelayMs |-> maxDelayMs,
     retryableStatusCodes |-> retryableStatusCodes, retryableErrors |-> retryableErrors]

getRetryConfig ==
    [maxRetries |-> maxRetries, baseDelayMs |-> baseDelayMs, maxDelayMs |-> maxDelayMs,
     retryableStatusCodes |-> retryableStatusCodes, retryableErrors |-> retryableErrors]

Min(a, b) == IF a <= b THEN a ELSE b
Max(a, b) == IF a >= b THEN a ELSE b

RECURSIVE Pow2(_)
Pow2(n) == IF n = 0 THEN 1 ELSE 2 * Pow2(n - 1)

\* error.httpCode || error.status || 0
HttpCodeOf(error) ==
    IF error.httpCode # 0 THEN error.httpCode
    ELSE IF error.status # 0 THEN error.status
    ELSE 0

\* error.code || error.errno || ''
ErrorCodeOf(error) ==
    IF error.code # "" THEN error.code
    ELSE IF error.errno # "" THEN error.errno
    ELSE ""

\* the exhaustion test dropped
shouldRetry_NoBudgetTest(error, retryAttempt, config) ==
    IF HttpCodeOf(error) \in config.retryableStatusCodes THEN TRUE
    ELSE IF ErrorCodeOf(error) \in config.retryableErrors THEN TRUE
    ELSE IF error.kind = "GoogleAdsRateLimitError" THEN TRUE
    ELSE IF error.kind \in {"GoogleAdsAuthenticationError", "GoogleAdsValidationError"} THEN FALSE
    ELSE IF HttpCodeOf(error) >= 500 THEN TRUE
    ELSE FALSE

shouldRetry(error, retryAttempt, config) ==
    IF retryAttempt >= config.maxRetries THEN FALSE
    ELSE IF HttpCodeOf(error) \in config.retryableStatusCodes THEN TRUE
    ELSE IF ErrorCodeOf(error) \in config.retryableErrors THEN TRUE
    ELSE IF error.kind = "GoogleAdsRateLimitError" THEN TRUE
    ELSE IF error.kind \in {"GoogleAdsAuthenticationError", "GoogleAdsValidationError"} THEN FALSE
    ELSE IF HttpCodeOf(error) >= 500 THEN TRUE
    ELSE FALSE

\* the jitter taken as a half of the exponential delay, not a quarter
calculateDelay_WideJitter(retryAttempt, config, retryAfter, rand) ==
    IF retryAfter # 0 /\ retryAfter # NaN /\ retryAfter > 0
    THEN Min(retryAfter * 1000, config.maxDelayMs)
    ELSE LET exponentialDelay == config.baseDelayMs * Pow2(retryAttempt)
             jitter == (exponentialDelay * (2 * rand - RandSteps)) \div (2 * RandSteps)
             delayWithJitter == exponentialDelay + jitter
         IN  Min(Max(delayWithJitter, config.baseDelayMs), config.maxDelayMs)

\* rand stands for Math.random() = rand / RandSteps
calculateDelay(retryAttempt, config, retryAfter, rand) ==
    IF retryAfter # 0 /\ retryAfter # NaN /\ retryAfter > 0
    THEN Min(retryAfter * 1000, config.maxDelayMs)
    ELSE LET exponentialDelay == config.baseDelayMs * Pow2(retryAttempt)
             jitter == (exponentialDelay * (2 * rand - RandSteps)) \div (4 * RandSteps)
             delayWithJitter == exponentialDelay + jitter
         IN  Min(Max(delayWithJitter, config.baseDelayMs), config.maxDelayMs)

\* parseInt of the retry-after header
ParseInt(s) ==
    CASE s = "5" -> 5
      [] s = "60" -> 60
      [] OTHER -> NaN

\* the generic branch hands back the error it was given
parseApiError_ReturnsRaw(error) ==
    LET httpCode == HttpCodeOf(error) IN
    IF httpCode = 403 THEN GoogleAdsApiError(httpCode, "PERMISSION_DENIED", TRUE, "classifier")
    ELSE IF httpCode = 401 THEN GoogleAdsAuthenticationError("classifier")
    ELSE IF httpCode = 400 THEN GoogleAdsValidationError("classifier")
    ELSE IF httpCode = 429
         THEN GoogleAdsRateLimitError(IF error.header # "" THEN ParseInt(error.header) ELSE 0,
                                      "classifier")
    ELSE IF httpCode >= 500 THEN GoogleAdsApiError(httpCode, "SERVER_ERROR", FALSE, "classifier")
    ELSE error

\* the rate-limit branch ignores the retry-after header
parseApiError_NoHeader(error) ==
    LET httpCode == HttpCodeOf(error) IN
    IF httpCode = 403 THEN GoogleAdsApiError(httpCode, "PERMISSION_DENIED", TRUE, "classifier")
    ELSE IF httpCode = 401 THEN GoogleAdsAuthenticationError("classifier")
    ELSE IF httpCode = 400 THEN GoogleAdsValidationError("classifier")
    ELSE IF httpCode = 429 THEN GoogleAdsRateLimitError(0, "classifier")
    ELSE IF httpCode >= 500 THEN GoogleAdsApiError(httpCode, "SERVER_ERROR", FALSE, "classifier")
    ELSE GoogleAdsApiError(httpCode, "UNKNOWN", FALSE, "classifier")

\* The response bodies of the errors above follow the upstream wire format,
\* for which nothing inside the try block throws, so the PARSE_ERROR
\* fallback of the catch is not taken.
parseApiError(error) ==
    LET httpCode == HttpCodeOf(error) IN
    IF httpCode = 403 THEN GoogleAdsApiError(httpCode, "PERMISSION_DENIED", TRUE, "classifier")
    ELSE IF httpCode = 401 THEN GoogleAdsAuthenticationError("classifier")
    ELSE IF httpCode = 400 THEN GoogleAdsValidationError("classifier")
    ELSE IF httpCode = 429
         THEN GoogleAdsRateLimitError(IF error.header # "" THEN ParseInt(error.header) ELSE 0,
                                      "classifier")
    ELSE IF httpCode >= 500 THEN GoogleAdsApiError(httpCode, "SERVER_ERROR", FALSE, "classifier")
    ELSE GoogleAdsApiError(httpCode, "UNKNOWN", FALSE, "classifier")

\* ------------------------------------------------------------------------
\* executeWithRetry
\* ------------------------------------------------------------------------

RetryInit ==
    /\ rpc = "idle"
    /\ attempt = 0
    /\ lastError = NoError
    /\ calls = 0
    /\ delays = <<>>
    /\ delay = 0
    /\ raised = NoError
    /\ hinted = TRUE
    /\ diagnosed = FALSE

ClassifyIdle ==
    /\ perr = NoError
    /\ pattempt = 0
    /\ pretry = FALSE
    /\ pparsed = NoError
    /\ pdelay = 0
    /\ ppc = "off"

\* the attempt counter kept from one call to the next: it starts at the
\* number of requests refused so far in the run
executeWithRetry_SharedCounter ==
    /\ rpc = "idle"
    /\ rpc' = "attempting"
    /\ attempt' = Min(Cardinality({ r \in 1..Len(requests) : requests[r].outcome = "failed" }),
                      getRetryConfig.maxRetries)
    /\ lastError' = NoError
    /\ calls' = 0
    /\ delays' = <<>>
    /\ delay' = 0
    /\ raised' = NoError
    /\ hinted' = TRUE
    /\ UNCHANGED diagnosed

\* entry of executeWithRetry: config, lastError, attempt = 0
executeWithRetry ==
    /\ rpc = "idle"
    /\ rpc' = "attempting"
    /\ attempt' = 0
    /\ lastError' = NoError
    /\ calls' = 0
    /\ delays' = <<>>
    /\ delay' = 0
    /\ raised' = NoError
    /\ hinted' = TRUE
    /\ UNCHANGED diagnosed

\* `return await operation()` resolves
OperationSucceeds ==
    /\ rpc = "attempting"
    /\ calls' = calls + 1
    /\ rpc' = "returned"
    /\ UNCHANGED <<attempt, lastError, delays, delay, raised, hinted, diagnosed>>

\* the catch block sleeping before it looks at the budget and at the error
OperationFails_AlwaysSleeps(error, rand) ==
    LET config == getRetryConfig IN
    /\ rpc = "attempting"
    /\ calls' = calls + 1
    /\ lastError' = error
    /\ hinted' = (hinted /\ HttpCodeOf(error) = 429 /\ error.header = "5")
    /\ diagnosed' = (diagnosed \/ (HttpCodeOf(error) = 403 /\ attempt = 0))
    /\ delay' = calculateDelay(attempt, config, error.retryAfter, rand)
    /\ delays' = Append(delays, delay')
    /\ rpc' = "sleeping"
    /\ UNCHANGED <<raised, attempt>>

\* the throw after the loop classifying the error of the first invocation
OperationFails_RaisesFirst(error, rand) ==
    LET config == getRetryConfig
        first == IF calls = 0 THEN error ELSE raised IN
    /\ rpc = "attempting"
    /\ calls' = calls + 1
    /\ lastError' = error
    /\ hinted' = (hinted /\ HttpCodeOf(error) = 429 /\ error.header = "5")
    /\ diagnosed' = (diagnosed \/ (HttpCodeOf(error) = 403 /\ attempt = 0))
    /\ IF attempt < config.maxRetries /\ shouldRetry(error, attempt, config)
       THEN /\ delay' = calculateDelay(attempt, config, error.retryAfter, rand)
            /\ delays' = Append(delays, delay')
            /\ rpc' = "sleeping"
            /\ raised' = first
       ELSE /\ rpc' = "raised"
            /\ raised' = parseApiError(first)
            /\ UNCHANGED <<delay, delays>>
    /\ UNCHANGED attempt

\* `await operation()` rejects with error: the catch block up to the
\* sleep, or up to the throw after the loop
OperationFails(error, rand) ==
    LET config == getRetryConfig IN
    /\ rpc = "attempting"
    /\ calls' = calls + 1
    /\ lastError' = error
    /\ hinted' = (hinted /\ HttpCodeOf(error) = 429 /\ error.header = "5")
    /\ diagnosed' = (diagnosed \/ (HttpCodeOf(error) = 403 /\ attempt = 0))
    /\ IF attempt < config.maxRetries /\ shouldRetry(error, attempt, config)
       THEN /\ delay' = calculateDelay(attempt, config, error.retryAfter, rand)
            /\ delays' = Append(delays, delay')
            /\ rpc' = "sleeping"
            /\ UNCHANGED raised
       ELSE /\ rpc' = "raised"
            /\ raised' = parseApiError(error)
            /\ UNCHANGED <<delay, delays>>
    /\ UNCHANGED attempt

\* the loop sleeping again instead of going to the next attempt
SleepDone_SleepsAgain ==
    /\ rpc = "sleeping"
    /\ rpc' = "sleeping"
    /\ UNCHANGED <<attempt, lastError, calls, delays, delay, raised, hinted, diagnosed>>

\* sleep(delay) resolves: continue, attempt++, loop test
SleepDone ==
    LET config == getRetryConfig IN
    /\ rpc = "sleeping"
    /\ attempt' = attempt + 1
    /\ IF attempt + 1 <= config.maxRetries
       THEN rpc' = "attempting" /\ UNCHANGED raised
       ELSE rpc' = "raised" /\ raised' = parseApiError(lastError)
    /\ UNCHANGED <<lastError, calls, delays, delay, hinted, diagnosed>>

RetryNext ==
    \/ executeWithRetry
    \/ OperationSucceeds
    \/ \E error \in Errors, rand \in 0..(RandSteps - 1) : OperationFails(error, rand)
    \/ SleepDone

\* ------------------------------------------------------------------------
\* The classifier and the eligibility policy applied to one error
\* ------------------------------------------------------------------------

ClassifyInit ==
    /\ perr \in Errors
    /\ pattempt \in 0..(maxRetries + 1)
    /\ pretry = FALSE
    /\ pparsed = NoError
    /\ pdelay = 0
    /\ ppc = "input"

ApplyShouldRetry ==
    /\ ppc = "input"
    /\ pretry' = shouldRetry(perr, pattempt, getRetryConfig)
    /\ ppc' = "decided"
    /\ UNCHANGED <<perr, pattempt, pparsed, pdelay>>

ApplyParseApiError ==
    /\ ppc = "decided"
    /\ pparsed' = parseApiError(perr)
    /\ ppc' = "parsed"
    /\ UNCHANGED <<perr, pattempt, pretry, pdelay>>

\* calculateDelay for the error's retryAfter and one draw of Math.random()
ApplyCalculateDelay(rand) ==
    /\ ppc = "parsed"
    /\ pdelay' = calculateDelay(pattempt, getRetryConfig, perr.retryAfter, rand)
    /\ ppc' = "delayed"
    /\ UNCHANGED <<perr, pattempt, pretry, pparsed>>

ClassifyNext ==
    \/ ApplyShouldRetry
    \/ ApplyParseApiError
    \/ \E rand \in 0..(RandSteps - 1) : ApplyCalculateDelay(rand)

\* ------------------------------------------------------------------------
\* Batch coordinator: processBatchItems
\* ------------------------------------------------------------------------

\* an absent (undefined) number
Absent == -1

Modes == {"failFast", "continueOnError", "partialFailure"}

\* an item for which validateInputParameters and buildConversionPayload
\* succeed, and one for which one of them throws
ItemKinds == {"valid", "invalid"}

\* an item whose parameters are valid, with the operation parameter
\* 'uploadClickConversion' or any other value
OperationKinds == {"valid", "unsupported"}

SeqsUpTo(S, n) == UNION { [1..k -> S] : k \in 0..n }

\* configured batch sizes: below the range (clamped to 1), inside it, above
\* it (clamped to 2000)
BatchSizes == {0} \cup (2..MaxItems) \cup {2001}

\* Math.min and Math.max taken for each other
actualBatchSize_Swapped(size) == Max(Min(size, 1), 2000)

\* Math.min(Math.max(batchSize, 1), 2000)
actualBatchSize(size) == Min(Max(size, 1), 2000)

\* the record buildConversionPayload builds from the parameters of item n
Conversion(n) == [item |-> n]

\* items.slice(from, to), both 0-based, to exclusive
Slice(s, from, to) == SubSeq(s, from + 1, Min(to, Len(s)))

RECURSIVE GroupFrom(_, _, _)
GroupFrom(list, size, from) ==
    IF from < Len(list)
    THEN <<Slice(list, from, from + size)>> \o GroupFrom(list, size, from + size)
    ELSE <<>>

\* the step of the loop taken as size + 1
RECURSIVE GroupFrom_Skips(_, _, _)
GroupFrom_Skips(list, size, from) ==
    IF from < Len(list)
    THEN <<Slice(list, from, from + size)>> \o GroupFrom_Skips(list, size, from + size + 1)
    ELSE <<>>

groupIntoBatches_Skips(list, size) == GroupFrom_Skips(list, size, 0)

groupIntoBatches(list, size) == GroupFrom(list, size, 0)

\* one element of location.fieldPathElements
PathElement(fieldName, index) == [fieldName |-> fieldName, index |-> index]

\* one entry of partialFailureError.details[].errors; an empty location
\* stands for an error without location
UpstreamErrors(n) ==
    { [location |-> <<>>] }
    \cup { [location |-> <<PathElement("conversions", k)>>] : k \in 0..n }
    \cup { [location |-> <<PathElement("conversions", k), PathElement("gclid", Absent)>>] :
             k \in 0..(n - 1) }

\* upload responses to a batch of n conversions: results empty or complete,
\* partialFailureError absent, or present with one detail of up to maxErrors
\* errors
ResponsesWith(n, maxErrors) ==
    { [results |-> r, partialFailureError |-> [present |-> FALSE, details |-> <<>>]] :
        r \in {0, n} }
    \cup { [results |-> r, partialFailureError |-> [present |-> TRUE, details |-> <<es>>]] :
             r \in {0, n}, es \in SeqsUpTo(UpstreamErrors(n), maxErrors) }

Responses(n) == ResponsesWith(n, MaxErrors)

\* the responses met in a run: the error list names at most one error
RunResponses(n) == ResponsesWith(n, 1)

NoResponse == [results |-> 0, partialFailureError |-> [present |-> FALSE, details |-> <<>>]]

\* a record pushed to returnData
Result(success, message, conversion, itemIndex, batchNumber, batchPosition, error, errorType) ==
    [success |-> success, message |-> message, conversion |-> conversion,
     itemIndex |-> itemIndex, batchNumber |-> batchNumber,
     batchPosition |-> batchPosition, error |-> error, errorType |-> errorType]

\* the index compared with the 1-based batchPosition
hasError_OneBased(response, pos) ==
    /\ response.partialFailureError.present
    /\ \E d \in 1..Len(response.partialFailureError.details) :
         LET errors == response.partialFailureError.details[d] IN
         \E e \in 1..Len(errors) :
            \E k \in 1..Len(errors[e].location) : errors[e].location[k].index = pos + 1

\* the hasError test of processBatchResponse for batch position pos
hasError(response, pos) ==
    /\ response.partialFailureError.present
    /\ \E d \in 1..Len(response.partialFailureError.details) :
         LET errors == response.partialFailureError.details[d] IN
         \E e \in 1..Len(errors) :
            \E k \in 1..Len(errors[e].location) : errors[e].location[k].index = pos

\* the text of the first error that names position pos, else the text of
\* the partialFailureError itself
extractErrorFromPartialFailure(partialFailureError, pos) ==
    IF \E d \in 1..Len(partialFailureError.details) :
         \E e \in 1..Len(partialFailureError.details[d]) :
            \E k \in 1..Len(partialFailureError.details[d][e].location) :
               partialFailureError.details[d][e].location[k].index = pos
    THEN "error.message"
    ELSE "partialFailureError.message"

processBatchResponse(response, batch, batchItemIndices, batchNumber) ==
    [p \in 1..Len(batch) |->
        LET failed == hasError(response, p - 1) IN
        Result(~failed,
               IF failed THEN "Conversion failed validation or processing"
               ELSE IF Len(batch) = 1 /\ response.results > 0
                    THEN "Conversion uploaded successfully"
                    ELSE "Conversion processed in batch",
               batch[p], batchItemIndices[p], batchNumber, p,
               IF failed
               THEN extractErrorFromPartialFailure(response.partialFailureError, p - 1)
               ELSE "",
               "")]

\* a record for the first item of the batch only
BatchFailure_FirstItemOnly(error, batchItemIndices, batchNumber) ==
    [p \in 1..1 |->
        Result(FALSE, "", [item |-> Absent], batchItemIndices[p], batchNumber, 0,
               "Batch failed", error.kind)]

\* the records pushed for a batch whose upload threw error
BatchFailure(error, batchItemIndices, batchNumber) ==
    [p \in 1..Len(batchItemIndices) |->
        Result(FALSE, "", [item |-> Absent], batchItemIndices[p], batchNumber, 0,
               "Batch failed", error.kind)]

\* errors of the upload request in a run: one the policy retries, one it does not
RunErrors ==
    { Err("HostError", 429, 0, "", "", "5", 0, "", FALSE, "operation"),
      Err("HostError", 400, 0, "", "", "", 0, "", FALSE, "operation") }

BatchIdle ==
    /\ items = <<>>
    /\ batchSize = 0
    /\ batchProcessingMode = "partialFailure"
    /\ bpc = "off"
    /\ i = 0
    /\ conversions = <<>>
    /\ itemIndexMap = <<>>
    /\ returnData = <<>>
    /\ batches = <<>>
    /\ batchIndexMaps = <<>>
    /\ batchIndex = 0
    /\ batchResponse = NoResponse
    /\ runError = NoError
    /\ enableBatchProcessing = FALSE
    /\ continueOnFail = FALSE
    /\ requests = <<>>

\* processBatchItems with batch processing enabled, before the build loop
BatchInit ==
    /\ items \in SeqsUpTo(ItemKinds, MaxItems)
    /\ batchSize \in BatchSizes
    /\ batchProcessingMode \in Modes
    /\ bpc = "building"
    /\ i = 0
    /\ conversions = <<>>
    /\ itemIndexMap = <<>>
    /\ returnData = <<>>
    /\ batches = <<>>
    /\ batchIndexMaps = <<>>
    /\ batchIndex = 0
    /\ batchResponse = NoResponse
    /\ runError = NoError
    /\ enableBatchProcessing = TRUE
    /\ continueOnFail = FALSE
    /\ requests = <<>>

\* the parameters of a run
pars == <<items, batchSize, batchProcessingMode, enableBatchProcessing, continueOnFail>>

\* one upload request: the item indices of the conversions in its body,
\* whether its URL carries partial_failure=true, and how it ended ("pending"
\* while it is in flight)
Request(indices, partialFailure, outcome) ==
    [conversions |-> indices, partialFailure |-> partialFailure, outcome |-> outcome]

\* every request carrying all the built conversions
CurrentIndices_WholeList ==
    IF enableBatchProcessing THEN itemIndexMap ELSE <<i>>

\* the item indices of the conversions the upload under way carries: the
\* batch in batch mode, [conversion] in uploadConversion
CurrentIndices ==
    IF enableBatchProcessing THEN batchIndexMaps[batchIndex + 1] ELSE <<i>>

\* partial_failure=true appended whatever the mode
PartialFailureFlag_Always == TRUE

\* the partial_failure query parameter of the URL: set by processBatch in
\* partialFailure mode only, by uploadConversion always
PartialFailureFlag ==
    IF enableBatchProcessing THEN batchProcessingMode = "partialFailure" ELSE TRUE

\* the operation calls httpRequestWithAuthentication
SendRequest ==
    requests' = Append(requests, Request(CurrentIndices, PartialFailureFlag, "pending"))

\* the call of httpRequestWithAuthentication settles
Settle(outcome) == requests' = [requests EXCEPT ![Len(requests)].outcome = outcome]

\* the build loop keeping the record of an item that failed validation
BuildItem_KeepsInvalid ==
    /\ enableBatchProcessing
    /\ bpc = "building"
    /\ i < Len(items)
    /\ i' = i + 1
    /\ conversions' = Append(conversions, Conversion(i))
    /\ itemIndexMap' = Append(itemIndexMap, i)
    /\ UNCHANGED <<returnData, bpc, runError>>
    /\ UNCHANGED <<pars, batches, batchIndexMaps, batchIndex, batchResponse, requests>>
    /\ UNCHANGED rvars

\* one iteration of the build loop; the operation parameter is not read
BuildItem ==
    /\ enableBatchProcessing
    /\ bpc = "building"
    /\ i < Len(items)
    /\ i' = i + 1
    /\ IF items[i + 1] # "invalid"
       THEN /\ conversions' = Append(conversions, Conversion(i))
            /\ itemIndexMap' = Append(itemIndexMap, i)
            /\ UNCHANGED <<returnData, bpc, runError>>
       ELSE LET error == GoogleAdsValidationError("validation") IN
            IF batchProcessingMode = "failFast"
            THEN /\ bpc' = "raised"
                 /\ runError' = error
                 /\ UNCHANGED <<conversions, itemIndexMap, returnData>>
            ELSE /\ returnData' = Append(returnData,
                        Result(FALSE, "", [item |-> Absent], i, 0, 0,
                               "Validation Error", error.kind))
                 /\ UNCHANGED <<conversions, itemIndexMap, bpc, runError>>
    /\ UNCHANGED <<pars, batches, batchIndexMaps, batchIndex, batchResponse, requests>>
    /\ UNCHANGED rvars

\* after the build loop: return when nothing was built, else group
GroupBatches ==
    /\ enableBatchProcessing
    /\ bpc = "building"
    /\ i = Len(items)
    /\ IF Len(conversions) = 0
       THEN /\ bpc' = "done"
            /\ UNCHANGED <<batches, batchIndexMaps>>
       ELSE /\ batches' = groupIntoBatches(conversions, actualBatchSize(batchSize))
            /\ batchIndexMaps' = groupIntoBatches(itemIndexMap, actualBatchSize(batchSize))
            /\ bpc' = "batch"
    /\ batchIndex' = 0
    /\ UNCHANGED <<pars, i, conversions, itemIndexMap, returnData, batchResponse,
                   runError, requests>>
    /\ UNCHANGED rvars

\* the call of executeWithRetry is over and its locals are gone
ReleaseRetryState ==
    /\ rpc' = "idle"
    /\ attempt' = 0
    /\ lastError' = NoError
    /\ calls' = 0
    /\ delays' = <<>>
    /\ delay' = 0
    /\ raised' = NoError
    /\ hinted' = TRUE
    /\ UNCHANGED diagnosed

\* the error rethrown whatever the mode
CatchBatchError_AlwaysThrows(error) ==
    /\ bpc' = "raised"
    /\ runError' = error
    /\ UNCHANGED <<returnData, batchIndex>>

\* the catch block of the batch loop
CatchBatchError(error) ==
    IF batchProcessingMode = "failFast"
    THEN /\ bpc' = "raised"
         /\ runError' = error
         /\ UNCHANGED <<returnData, batchIndex>>
    ELSE /\ returnData' = returnData \o
                BatchFailure(error, batchIndexMaps[batchIndex + 1], batchIndex + 1)
         /\ batchIndex' = batchIndex + 1
         /\ bpc' = "batch"
         /\ UNCHANGED runError

\* the upload started and not awaited: the loop moves to the next batch
processBatch_NotAwaited ==
    /\ enableBatchProcessing
    /\ bpc = "batch"
    /\ batchIndex < Len(batches)
    /\ rpc = "idle"
    /\ SendRequest
    /\ batchIndex' = batchIndex + 1
    /\ UNCHANGED <<pars, bpc, i, conversions, itemIndexMap, returnData, batches,
                   batchIndexMaps, batchResponse, runError>>
    /\ UNCHANGED rvars

\* processBatch up to the first request of executeWithRetry; getCustomerId
\* may throw
processBatch ==
    /\ enableBatchProcessing
    /\ bpc = "batch"
    /\ batchIndex < Len(batches)
    /\ rpc = "idle"
    /\ \/ /\ executeWithRetry
          /\ SendRequest
          /\ bpc' = "uploading"
          /\ UNCHANGED <<returnData, batchIndex, runError>>
       \/ /\ CatchBatchError(GoogleAdsAuthenticationError("getCustomerId"))
          /\ UNCHANGED <<rvars, requests>>
    /\ UNCHANGED <<pars, i, conversions, itemIndexMap, batches, batchIndexMaps,
                   batchResponse>>

\* responses to the upload of one conversion by uploadConversion
ItemResponses == { r \in RunResponses(1) : r.results = 1 }

\* the upload request is answered
UploadSucceeds ==
    /\ bpc = "uploading"
    /\ OperationSucceeds
    /\ Settle("ok")
    /\ batchResponse' \in (IF enableBatchProcessing
                           THEN RunResponses(Len(CurrentIndices))
                           ELSE ItemResponses)
    /\ UNCHANGED <<pars, bpc, i, conversions, itemIndexMap, returnData, batches,
                   batchIndexMaps, batchIndex, runError>>

\* the upload request fails
UploadFails ==
    /\ bpc = "uploading"
    /\ \E error \in RunErrors : OperationFails(error, RandSteps \div 2)
    /\ Settle("failed")
    /\ UNCHANGED <<pars, bpc, i, conversions, itemIndexMap, returnData, batches,
                   batchIndexMaps, batchIndex, batchResponse, runError>>

\* the back-off sleep is over: the operation is invoked again
UploadSleepDone ==
    /\ bpc = "uploading"
    /\ SleepDone
    /\ IF attempt + 1 <= getRetryConfig.maxRetries
       THEN SendRequest
       ELSE UNCHANGED requests
    /\ UNCHANGED <<pars, bpc, i, conversions, itemIndexMap, returnData, batches,
                   batchIndexMaps, batchIndex, batchResponse, runError>>

\* executeWithRetry returned: processBatchResponse, push, next batch
BatchReturned ==
    /\ enableBatchProcessing
    /\ bpc = "uploading"
    /\ rpc = "returned"
    /\ returnData' = returnData \o
           processBatchResponse(batchResponse, batches[batchIndex + 1],
                                batchIndexMaps[batchIndex + 1], batchIndex + 1)
    /\ batchResponse' = NoResponse
    /\ batchIndex' = batchIndex + 1
    /\ bpc' = "batch"
    /\ ReleaseRetryState
    /\ UNCHANGED <<pars, i, conversions, itemIndexMap, batches, batchIndexMaps,
                   runError, requests>>

\* the failure recorded and the loop going on whatever the mode
BatchRaised_GoesOn ==
    /\ enableBatchProcessing
    /\ bpc = "uploading"
    /\ rpc = "raised"
    /\ returnData' = returnData \o
           BatchFailure(raised, batchIndexMaps[batchIndex + 1], batchIndex + 1)
    /\ batchIndex' = batchIndex + 1
    /\ bpc' = "batch"
    /\ ReleaseRetryState
    /\ UNCHANGED <<pars, i, conversions, itemIndexMap, batches, batchIndexMaps,
                   batchResponse, runError, requests>>

\* executeWithRetry threw: the catch block of the batch loop
BatchRaised ==
    /\ enableBatchProcessing
    /\ bpc = "uploading"
    /\ rpc = "raised"
    /\ CatchBatchError(raised)
    /\ ReleaseRetryState
    /\ UNCHANGED <<pars, i, conversions, itemIndexMap, batches, batchIndexMaps,
                   batchResponse, requests>>

\* the batch loop ends: return returnData
BatchesDone ==
    /\ enableBatchProcessing
    /\ bpc = "batch"
    /\ batchIndex = Len(batches)
    /\ bpc' = "done"
    /\ UNCHANGED <<pars, i, conversions, itemIndexMap, returnData, batches,
                   batchIndexMaps, batchIndex, batchResponse, runError, requests>>
    /\ UNCHANGED rvars

\* ------------------------------------------------------------------------
\* Single-item path: processIndividualItems
\* ------------------------------------------------------------------------

\* processBatchItems with batch processing disabled: processIndividualItems
\* before its loop
ItemsInit ==
    /\ items \in SeqsUpTo(ItemKinds, MaxItems)
    /\ batchSize = 1
    /\ batchProcessingMode = "partialFailure"
    /\ enableBatchProcessing = FALSE
    /\ continueOnFail \in BOOLEAN
    /\ bpc = "item"
    /\ i = 0
    /\ conversions = <<>>
    /\ itemIndexMap = <<>>
    /\ returnData = <<>>
    /\ batches = <<>>
    /\ batchIndexMaps = <<>>
    /\ batchIndex = 0
    /\ batchResponse = NoResponse
    /\ runError = NoError
    /\ requests = <<>>

\* the failure recorded and the loop going on whatever the host's policy
CatchItemError_Swallows(error) ==
    /\ returnData' = Append(returnData,
           Result(FALSE, "", [item |-> Absent], i, 0, 0, "error.message", error.kind))
    /\ i' = i + 1
    /\ bpc' = "item"
    /\ UNCHANGED runError

\* the catch block of the item loop
CatchItemError(error) ==
    IF continueOnFail
    THEN /\ returnData' = Append(returnData,
                Result(FALSE, "", [item |-> Absent], i, 0, 0, "error.message", error.kind))
         /\ i' = i + 1
         /\ bpc' = "item"
         /\ UNCHANGED runError
    ELSE /\ bpc' = "raised"
         /\ runError' = error
         /\ UNCHANGED <<returnData, i>>

\* one iteration of the item loop up to the first request of uploadConversion:
\* the operation is not supported, validateInputParameters or
\* buildConversionPayload throws, getCustomerId throws, or executeWithRetry
\* invokes the operation
ProcessItem ==
    /\ ~enableBatchProcessing
    /\ bpc = "item"
    /\ i < Len(items)
    /\ rpc = "idle"
    /\ IF items[i + 1] = "unsupported"
       THEN /\ CatchItemError(GoogleAdsValidationError("operation"))
            /\ UNCHANGED <<rvars, requests>>
       ELSE IF items[i + 1] = "invalid"
       THEN /\ CatchItemError(GoogleAdsValidationError("validation"))
            /\ UNCHANGED <<rvars, requests>>
       ELSE \/ /\ executeWithRetry
               /\ SendRequest
               /\ bpc' = "uploading"
               /\ UNCHANGED <<returnData, i, runError>>
            \/ /\ CatchItemError(GoogleAdsAuthenticationError("getCustomerId"))
               /\ UNCHANGED <<rvars, requests>>
    /\ UNCHANGED <<pars, conversions, itemIndexMap, batches, batchIndexMaps, batchIndex,
                   batchResponse>>

\* success read off the partialFailureError of the response
ItemReturned_FromResponse ==
    /\ ~enableBatchProcessing
    /\ bpc = "uploading"
    /\ rpc = "returned"
    /\ returnData' = Append(returnData,
           Result(~batchResponse.partialFailureError.present,
                  "Conversion uploaded successfully", Conversion(i), i, 0, 0, "", ""))
    /\ batchResponse' = NoResponse
    /\ i' = i + 1
    /\ bpc' = "item"
    /\ ReleaseRetryState
    /\ UNCHANGED <<pars, conversions, itemIndexMap, batches, batchIndexMaps, batchIndex,
                   runError, requests>>

\* uploadConversion returned: push the success record, next item
ItemReturned ==
    /\ ~enableBatchProcessing
    /\ bpc = "uploading"
    /\ rpc = "returned"
    /\ returnData' = Append(returnData,
           Result(TRUE, "Conversion uploaded successfully", Conversion(i), i, 0, 0, "", ""))
    /\ batchResponse' = NoResponse
    /\ i' = i + 1
    /\ bpc' = "item"
    /\ ReleaseRetryState
    /\ UNCHANGED <<pars, conversions, itemIndexMap, batches, batchIndexMaps, batchIndex,
                   runError, requests>>

\* uploadConversion threw: the catch block of the item loop
ItemRaised ==
    /\ ~enableBatchProcessing
    /\ bpc = "uploading"
    /\ rpc = "raised"
    /\ CatchItemError(raised)
    /\ ReleaseRetryState
    /\ UNCHANGED <<pars, conversions, itemIndexMap, batches, batchIndexMaps, batchIndex,
                   batchResponse, requests>>

\* the item loop ends: return returnData
ItemsDone ==
    /\ ~enableBatchProcessing
    /\ bpc = "item"
    /\ i = Len(items)
    /\ bpc' = "done"
    /\ UNCHANGED <<pars, i, conversions, itemIndexMap, returnData, batches,
                   batchIndexMaps, batchIndex, batchResponse, runError, requests>>
    /\ UNCHANGED rvars

\* ------------------------------------------------------------------------
\* Runs over items of any operation, in every processing mode
\* ------------------------------------------------------------------------

\* processBatchItems entered with items whose parameters are valid and whose
\* operation parameter is 'uploadClickConversion' or another value: batching
\* enabled (batches of two) in one of the three modes, or disabled with any
\* mode selected
OperationInit ==
    /\ items \in SeqsUpTo(OperationKinds, MaxItems)
    /\ batchSize = 2
    /\ batchProcessingMode \in Modes
    /\ enableBatchProcessing \in BOOLEAN
    /\ continueOnFail \in (IF enableBatchProcessing THEN {FALSE} ELSE BOOLEAN)
    /\ bpc = (IF enableBatchProcessing THEN "building" ELSE "item")
    /\ i = 0
    /\ conversions = <<>>
    /\ itemIndexMap = <<>>
    /\ returnData = <<>>
    /\ batches = <<>>
    /\ batchIndexMaps = <<>>
    /\ batchIndex = 0
    /\ batchResponse = NoResponse
    /\ runError = NoError
    /\ requests = <<>>

\* ------------------------------------------------------------------------
\* processBatchResponse applied to one batch and one response
\* ------------------------------------------------------------------------

\* the item indices the build loop keeps: those of the valid items, ascending
RECURSIVE BuiltFrom(_, _)
BuiltFrom(list, n) ==
    IF n >= Len(list) THEN <<>>
    ELSE (IF list[n + 1] = "valid" THEN <<n>> ELSE <<>>) \o BuiltFrom(list, n + 1)

\* a run whose built records form one batch, at the point where the
\* response of that batch has arrived
ResponseInit ==
    /\ items \in SeqsUpTo(ItemKinds, MaxItems)
    /\ BuiltFrom(items, 0) # <<>>
    /\ batchSize = 2000
    /\ batchProcessingMode = "partialFailure"
    /\ enableBatchProcessing = TRUE
    /\ continueOnFail = FALSE
    /\ bpc = "response"
    /\ i = Len(items)
    /\ itemIndexMap = BuiltFrom(items, 0)
    /\ conversions = [p \in 1..Len(itemIndexMap) |-> Conversion(itemIndexMap[p])]
    /\ returnData = <<>>
    /\ batches = groupIntoBatches(conversions, actualBatchSize(batchSize))
    /\ batchIndexMaps = groupIntoBatches(itemIndexMap, actualBatchSize(batchSize))
    /\ batchIndex = 0
    /\ batchResponse \in Responses(Len(itemIndexMap))
    /\ runError = NoError
    /\ requests = <<Request(itemIndexMap, PartialFailureFlag, "ok")>>

ApplyProcessBatchResponse ==
    /\ bpc = "response"
    /\ returnData' = processBatchResponse(batchResponse, batches[batchIndex + 1],
                                          batchIndexMaps[batchIndex + 1], batchIndex + 1)
    /\ bpc' = "attributed"
    /\ UNCHANGED <<pars, i, conversions, itemIndexMap, batches, batchIndexMaps, batchIndex,
                   batchResponse, runError, requests>>

ResponseNext == ApplyProcessBatchResponse

BatchNext ==
    \/ BuildItem
    \/ GroupBatches
    \/ processBatch
    \/ UploadSucceeds
    \/ UploadFails
    \/ UploadSleepDone
    \/ BatchReturned
    \/ BatchRaised
    \/ BatchesDone
    \/ ProcessItem
    \/ ItemReturned
    \/ ItemRaised
    \/ ItemsDone

\* ------------------------------------------------------------------------
\* buildConversionPayload applied to the parameters of one item
\* ------------------------------------------------------------------------

\* a string is the sequence of its characters; '' is <<>>
Texts == { <<>>, <<" ">>, <<" ", "A">> }

\* a property that was never assigned
Undefined == <<"undefined">>

RECURSIVE TrimStart(_)
TrimStart(str) ==
    IF str # <<>> /\ Head(str) = " " THEN TrimStart(Tail(str)) ELSE str

RECURSIVE TrimEnd(_)
TrimEnd(str) ==
    IF str # <<>> /\ str[Len(str)] = " " THEN TrimEnd(SubSeq(str, 1, Len(str) - 1)) ELSE str

\* String.prototype.trim
Trim(str) == TrimEnd(TrimStart(str))

\* the lower-case form of one character
LowerOf(c) ==
    CASE c = "A" -> "a"
      [] c = "S" -> "s"
      [] OTHER -> c

\* String.prototype.toLowerCase
ToLowerCase(str) == [k \in 1..Len(str) |-> LowerOf(str[k])]

\* the hex digest of SHA-256, taken as a one-to-one function of its input
Sha256(str) == <<"sha256:">> \o str

\* the digest of the lower-case form, not trimmed
hashString_NoTrim(input) ==
    IF input = <<>> \/ Trim(input) = <<>>
    THEN <<>>
    ELSE Sha256(ToLowerCase(input))

hashString(input) ==
    IF input = <<>> \/ Trim(input) = <<>>
    THEN <<>>
    ELSE Sha256(Trim(ToLowerCase(input)))

\* firstName stands for the address fields firstName, lastName and
\* streetAddress, city for city, state, postalCode and countryCode
buildUserIdentifiers(p) ==
    (IF p.email # <<>> THEN <<[hashedEmail |-> hashString(p.email)]>> ELSE <<>>)
    \o (IF p.phoneNumber # <<>>
        THEN <<[hashedPhoneNumber |-> hashString(p.phoneNumber)]>> ELSE <<>>)
    \o (IF p.firstName # <<>> \/ p.city # <<>>
        THEN <<[addressInfo |->
                  [hashedFirstName |-> IF p.firstName # <<>> THEN hashString(p.firstName)
                                       ELSE Undefined,
                   hashedCity |-> IF p.city # <<>> THEN hashString(p.city)
                                  ELSE Undefined]]>>
        ELSE <<>>)

\* conversion.userIdentifiers when it was never assigned
NoIdentifiers == <<[undefined |-> TRUE]>>

\* what a call of buildConversionPayload gives: a conversion record or a
\* thrown error
Built(gclid, gbraid, wbraid, userIdentifiers) ==
    [thrown |-> "", gclid |-> gclid, gbraid |-> gbraid, wbraid |-> wbraid,
     userIdentifiers |-> userIdentifiers]

Thrown(kind) ==
    [thrown |-> kind, gclid |-> Undefined, gbraid |-> Undefined, wbraid |-> Undefined,
     userIdentifiers |-> NoIdentifiers]

NotBuilt == Thrown("none")

\* the account identifier of the credentials (or the managed account
\* selected): missing, separators only, digits, digits with separators
CustomerIds == { <<>>, <<"-">>, <<"1">>, <<"1", "-", "2">> }

IsDigit(c) == c \in {"0", "1", "2", "3", "4", "5", "6", "7", "8", "9"}

\* customerId.replace(/\D/g, '')
Digits(str) == SelectSeq(str, IsDigit)

\* what a call of getCustomerId gives: the sanitized identifier or a thrown
\* error
Resolved(id) == [thrown |-> "", customerId |-> id]

Unresolved(kind) == [thrown |-> kind, customerId |-> <<>>]

\* the sanitized identifier returned without the test for an empty result
getCustomerId_NoDigitTest(id) ==
    IF id = <<>> THEN Unresolved("GoogleAdsAuthenticationError")
    ELSE Resolved(Digits(id))

getCustomerId(id) ==
    IF id = <<>> THEN Unresolved("GoogleAdsAuthenticationError")
    ELSE IF Digits(id) = <<>> THEN Unresolved("GoogleAdsAuthenticationError")
    ELSE Resolved(Digits(id))

\* every case also assigning conversion.gclid when a gclid was given
buildConversionPayload_AlsoGclid(p, id) ==
    IF p.conversionAction = <<>> THEN Thrown("GoogleAdsValidationError")
    ELSE IF getCustomerId(id).thrown # "" THEN Thrown(getCustomerId(id).thrown)
    ELSE LET extra == IF p.gclid # <<>> THEN p.gclid ELSE Undefined IN
         CASE p.identificationMethod = "gclid" ->
                IF p.gclid = <<>> THEN Thrown("NodeOperationError")
                ELSE Built(p.gclid, Undefined, Undefined, NoIdentifiers)
           [] p.identificationMethod = "gbraid" ->
                IF p.gbraid = <<>> THEN Thrown("NodeOperationError")
                ELSE Built(extra, p.gbraid, Undefined, NoIdentifiers)
           [] p.identificationMethod = "wbraid" ->
                IF p.wbraid = <<>> THEN Thrown("NodeOperationError")
                ELSE Built(extra, Undefined, p.wbraid, NoIdentifiers)
           [] p.identificationMethod = "enhanced" ->
                IF Len(buildUserIdentifiers(p)) = 0 THEN Thrown("NodeOperationError")
                ELSE Built(extra, Undefined, Undefined, buildUserIdentifiers(p))
           [] OTHER -> Thrown("NodeOperationError")

\* the identity part of buildConversionPayload; the conversion action given
\* is a bare id or absent
buildConversionPayload(p, id) ==
    IF p.conversionAction = <<>> THEN Thrown("GoogleAdsValidationError")
    ELSE IF getCustomerId(id).thrown # "" THEN Thrown(getCustomerId(id).thrown)
    ELSE CASE p.identificationMethod = "gclid" ->
                IF p.gclid = <<>> THEN Thrown("NodeOperationError")
                ELSE Built(p.gclid, Undefined, Undefined, NoIdentifiers)
           [] p.identificationMethod = "gbraid" ->
                IF p.gbraid = <<>> THEN Thrown("NodeOperationError")
                ELSE Built(Undefined, p.gbraid, Undefined, NoIdentifiers)
           [] p.identificationMethod = "wbraid" ->
                IF p.wbraid = <<>> THEN Thrown("NodeOperationError")
                ELSE Built(Undefined, Undefined, p.wbraid, NoIdentifiers)
           [] p.identificationMethod = "enhanced" ->
                IF Len(buildUserIdentifiers(p)) = 0 THEN Thrown("NodeOperationError")
                ELSE Built(Undefined, Undefined, Undefined, buildUserIdentifiers(p))
           [] OTHER -> Thrown("NodeOperationError")

IdentificationMethods == {"gclid", "gbraid", "wbraid", "enhanced", "other"}

BuildIdle ==
    /\ params = [identificationMethod |-> "gclid", conversionAction |-> <<>>,
                 gclid |-> <<>>, gbraid |-> <<>>, wbraid |-> <<>>, email |-> <<>>,
                 phoneNumber |-> <<>>, firstName |-> <<>>, city |-> <<>>]
    /\ customerId = <<"1">>
    /\ built = NotBuilt
    /\ cpc = "off"

BuildInit ==
    /\ params \in [identificationMethod : IdentificationMethods,
                   conversionAction : {<<>>, <<"A">>},
                   gclid : Texts, gbraid : Texts, wbraid : Texts, email : Texts,
                   phoneNumber : Texts, firstName : Texts, city : Texts]
    /\ customerId \in CustomerIds
    /\ built = NotBuilt
    /\ cpc = "input"

ApplyBuildConversionPayload ==
    /\ cpc = "input"
    /\ built' = buildConversionPayload(params, customerId)
    /\ cpc' = "built"
    /\ UNCHANGED <<params, customerId>>

BuildNext == ApplyBuildConversionPayload

\* ------------------------------------------------------------------------
\* hashString applied to one string
\* ------------------------------------------------------------------------

\* the upper-case form of one character: the sharp s has none of its own
\* and becomes two capital letters
UpperOf(c) ==
    CASE c = "a" -> <<"A">>
      [] c = "s" -> <<"S">>
      [] c = "ß" -> <<"S", "S">>
      [] OTHER -> <<c>>

\* String.prototype.toUpperCase
RECURSIVE ToUpperCase(_)
ToUpperCase(str) ==
    IF str = <<>> THEN <<>> ELSE UpperOf(Head(str)) \o ToUpperCase(Tail(str))

Letters == {" ", "A", "a", "ß"}

HashInputs == UNION { [1..n -> Letters] : n \in 0..MaxText }

NoDigests == [plain |-> <<>>, padded |-> <<>>]

HashIdle ==
    /\ hinput = <<>>
    /\ hashed = NoDigests
    /\ hpc = "off"

HashInit ==
    /\ hinput \in HashInputs
    /\ hashed = NoDigests
    /\ hpc = "input"

\* hashString of the string, and of its upper-case form between two spaces
ApplyHashString ==
    /\ hpc = "input"
    /\ hashed' = [plain |-> hashString(hinput),
                  padded |-> hashString(<<" ">> \o ToUpperCase(hinput) \o <<" ">>)]
    /\ hpc' = "hashed"
    /\ UNCHANGED hinput

HashNext == ApplyHashString

\* ------------------------------------------------------------------------
\* One item: validateInputParameters, buildConversionPayload, uploadConversion
\* ------------------------------------------------------------------------

\* instants in milliseconds, on the second and half-way through it
Instants == { s * 1000 + f : s \in 1..MaxSeconds, f \in {0, 500} }

\* a string as the Date constructor reads it: fmt is its shape and t the
\* instant it names, NaN when it names none
DateText(fmt, t) == [fmt |-> fmt, t |-> t]

\* ''
EmptyText == DateText("empty", NaN)

\* a text that is no date, such as 'invalid-date-format' or '[object Object]'
InvalidText == DateText("text", NaN)

\* 'YYYY-MM-DD HH:mm:ss+00:00', the second that starts at t
WireText(t) == DateText("wire", t)

\* 'YYYY-MM-DDTHH:mm:ss.sssZ'
IsoText(t) == DateText("iso", t)

NoText == DateText("none", NaN)

\* new Date(text).getTime()
NewDate(text) == IF text.fmt \in {"wire", "iso"} THEN text.t ELSE NaN

\* Date.prototype.toISOString of a valid date
toISOString(t) == IsoText(t)

\* the branch that hands back the ISO string unchanged
formatDateForGoogleAds_KeepsIso(t) == toISOString(t)

\* 'T' becomes a space and the '.sssZ' tail becomes '+00:00': the
\* milliseconds are dropped; the date given is a valid one
formatDateForGoogleAds(t) ==
    LET isoString == toISOString(t) IN WireText(isoString.t - (isoString.t % 1000))

\* a value of the conversionDateTime parameter; an object stands for its
\* toString() text (a DateTime gives an ISO string) and has no toISOString
Value(type, text, t, elements) == [type |-> type, text |-> text, t |-> t, elements |-> elements]

Missing == Value("undefined", EmptyText, NaN, <<>>)

DateTexts ==
    {EmptyText, InvalidText}
    \cup { WireText(t - (t % 1000)) : t \in Instants }
    \cup { IsoText(t) : t \in Instants }

ScalarValues ==
    {Missing}
    \cup { Value("string", text, NaN, <<>>) : text \in DateTexts }
    \cup { Value("number", EmptyText, t, <<>>) : t \in Instants \cup {0, NaN} }
    \cup { Value("date", EmptyText, t, <<>>) : t \in Instants \cup {NaN} }
    \cup { Value("object", text, NaN, <<>>) :
             text \in {InvalidText} \cup { IsoText(t) : t \in Instants } }

DateTimeValues ==
    ScalarValues
    \cup { Value("array", EmptyText, NaN, <<>>) }
    \cup { Value("array", EmptyText, NaN, <<v>>) : v \in ScalarValues }

\* !dateTimeValue
Falsy(v) ==
    \/ v.type = "undefined"
    \/ v.type = "string" /\ v.text = EmptyText
    \/ v.type = "number" /\ v.t \in {0, NaN}

\* an unparseable value handed back as it is
convertDateTimeToString_KeepsText(v, clock) ==
    IF Falsy(v) THEN toISOString(clock)
    ELSE IF v.type \in {"string", "object"} /\ NewDate(v.text) = NaN THEN v.text
    ELSE IF v.type \in {"string", "object"} THEN formatDateForGoogleAds(NewDate(v.text))
    ELSE IF v.t # NaN THEN formatDateForGoogleAds(v.t)
    ELSE InvalidText

\* clock is what new Date() gives during the call
RECURSIVE convertDateTimeToString(_, _)
convertDateTimeToString(v, clock) ==
    IF Falsy(v) THEN toISOString(clock)
    ELSE CASE v.type = "string" ->
                IF NewDate(v.text) # NaN THEN formatDateForGoogleAds(NewDate(v.text))
                ELSE formatDateForGoogleAds(clock)
           [] v.type = "array" ->
                IF Len(v.elements) > 0 THEN convertDateTimeToString(v.elements[1], clock)
                ELSE formatDateForGoogleAds(clock)
           [] v.type = "date" ->
                IF v.t # NaN THEN formatDateForGoogleAds(v.t)
                ELSE formatDateForGoogleAds(clock)
           [] v.type = "object" ->
                IF NewDate(v.text) # NaN THEN formatDateForGoogleAds(NewDate(v.text))
                ELSE formatDateForGoogleAds(clock)
           [] v.type = "number" ->
                IF v.t # NaN THEN formatDateForGoogleAds(v.t)
                ELSE formatDateForGoogleAds(clock)
           [] OTHER -> formatDateForGoogleAds(clock)

\* !x || x.trim() === ''
Blank(str) == str = <<>> \/ Trim(str) = <<>>

\* what a call of validateInputParameters gives
Accepted == [thrown |-> "", field |-> ""]

Rejected(kind, field) == [thrown |-> kind, field |-> field]

NotValidated == Rejected("none", "")

\* city, state, postalCode and countryCode counted as user data too
hasUserData_AnyField(p) == ~Blank(p.email) \/ ~Blank(p.phoneNumber) \/ ~Blank(p.firstName)
                           \/ ~Blank(p.city)

\* [email, phoneNumber, firstName, lastName, streetAddress].some(...)
hasUserData(p) == ~Blank(p.email) \/ ~Blank(p.phoneNumber) \/ ~Blank(p.firstName)

\* the comparison with the clock left out
InFuture_Never(date, clock) == FALSE

\* date > now
InFuture(date, clock) == date > clock

\* clock is what new Date() gives in convertDateTimeToString, later what it
\* gives in the future test
validateInputParameters(p, v, clock, later) ==
    LET text == convertDateTimeToString(v, clock)
        date == NewDate(text)
        method == p.identificationMethod
    IN  IF Blank(p.conversionAction)
        THEN Rejected("GoogleAdsValidationError", "conversionAction")
        ELSE IF text = EmptyText
        THEN Rejected("GoogleAdsValidationError", "conversionDateTime")
        ELSE IF method = "gclid" /\ Blank(p.gclid)
        THEN Rejected("GoogleAdsValidationError", "gclid")
        ELSE IF method = "gbraid" /\ Blank(p.gbraid)
        THEN Rejected("GoogleAdsValidationError", "gbraid")
        ELSE IF method = "wbraid" /\ Blank(p.wbraid)
        THEN Rejected("GoogleAdsValidationError", "wbraid")
        ELSE IF method = "enhanced" /\ ~hasUserData(p)
        THEN Rejected("GoogleAdsValidationError", "userIdentifiers")
        ELSE IF method \notin {"gclid", "gbraid", "wbraid", "enhanced"}
        THEN Rejected("GoogleAdsValidationError", "identificationMethod")
        ELSE IF date = NaN \/ InFuture(date, later)
        THEN Rejected("GoogleAdsValidationError", "conversionDateTime")
        ELSE Accepted

ItemIdle ==
    /\ dateTimeValue = Missing
    /\ now = 0
    /\ validation = NotValidated
    /\ conversionDateTime = NoText
    /\ uploaded = FALSE
    /\ vpc = "off"

\* every combination of identity parameters, with a conversion time in the past
IdentityInputs ==
    /\ params \in [identificationMethod : IdentificationMethods,
                   conversionAction : {<<>>, <<"A">>},
                   gclid : Texts, gbraid : Texts, wbraid : Texts, email : Texts,
                   phoneNumber : Texts, firstName : Texts, city : Texts]
    /\ dateTimeValue = Value("string", WireText(1000), NaN, <<>>)
    /\ now = MaxSeconds * 1000 + 500

\* every conversion time at every instant, with a click id given or not
DateInputs ==
    /\ params \in [identificationMethod : {"gclid"}, conversionAction : {<<"A">>},
                   gclid : {<<>>, <<" ", "A">>}, gbraid : {<<>>}, wbraid : {<<>>},
                   email : {<<>>}, phoneNumber : {<<>>}, firstName : {<<>>},
                   city : {<<>>}]
    /\ dateTimeValue \in DateTimeValues
    /\ now \in Instants

ItemInit ==
    /\ IdentityInputs \/ DateInputs
    /\ customerId = <<"1">>
    /\ built = NotBuilt
    /\ cpc = "off"
    /\ validation = NotValidated
    /\ conversionDateTime = NoText
    /\ uploaded = FALSE
    /\ vpc = "input"

\* validateInputParameters(i) in the try block of the item
ValidateItem ==
    /\ vpc = "input"
    /\ \E later \in Instants :
          /\ later >= now
          /\ validation' = validateInputParameters(params, dateTimeValue, now, later)
          /\ now' = later
    /\ vpc' = IF validation'.thrown = "" THEN "validated" ELSE "rejected"
    /\ UNCHANGED <<params, customerId, built, cpc, dateTimeValue, conversionDateTime,
                   uploaded>>

\* buildConversionPayload(i): the identity of the record and its
\* conversionDateTime, converted again at the time of the call
BuildRecord ==
    /\ vpc = "validated"
    /\ \E later \in Instants :
          /\ later >= now
          /\ now' = later
          /\ built' = buildConversionPayload(params, customerId)
          /\ conversionDateTime' =
                IF built'.thrown = "" THEN convertDateTimeToString(dateTimeValue, later)
                ELSE NoText
    /\ vpc' = IF built'.thrown = "" THEN "built" ELSE "failed"
    /\ UNCHANGED <<params, customerId, cpc, dateTimeValue, validation, uploaded>>

\* uploadConversion(conversion, i) is called with the record
UploadRecord ==
    /\ vpc = "built"
    /\ uploaded' = TRUE
    /\ vpc' = "uploaded"
    /\ UNCHANGED <<params, customerId, built, cpc, dateTimeValue, now, validation,
                   conversionDateTime>>

ItemNext ==
    \/ ValidateItem
    \/ BuildRecord
    \/ UploadRecord

\* ------------------------------------------------------------------------
\* Specifications
\* ------------------------------------------------------------------------

vars == <<rvars, pvars, bvars, cvars, ivars, hvars>>

\* one call of executeWithRetry with an arbitrary operation
Init == RetryInit /\ ClassifyIdle /\ BatchIdle /\ BuildIdle /\ ItemIdle /\ HashIdle
Next == RetryNext /\ UNCHANGED <<pvars, bvars, cvars, ivars, hvars>>
Spec == Init /\ [][Next]_vars

\* the promise of the operation settles; Math.random() gives the middle of
\* its range
OperationCompletes ==
    \/ OperationSucceeds
    \/ \E error \in Errors : OperationFails(error, RandSteps \div 2)

\* one call of executeWithRetry whose operation invocations and back-off
\* sleeps all complete
InitFair == Init
NextFair ==
    /\ executeWithRetry \/ OperationCompletes \/ SleepDone
    /\ UNCHANGED <<pvars, bvars, cvars, ivars, hvars>>
SpecFair ==
    /\ InitFair
    /\ [][NextFair]_vars
    /\ WF_vars(OperationCompletes /\ UNCHANGED <<pvars, bvars, cvars, ivars, hvars>>)
    /\ WF_vars(SleepDone /\ UNCHANGED <<pvars, bvars, cvars, ivars, hvars>>)

\* shouldRetry, parseApiError and calculateDelay applied to one error
InitClassify == ClassifyInit /\ RetryInit /\ BatchIdle /\ BuildIdle /\ ItemIdle /\ HashIdle
NextClassify == ClassifyNext /\ UNCHANGED <<rvars, bvars, cvars, ivars, hvars>>
SpecClassify == InitClassify /\ [][NextClassify]_vars

\* one run of processBatchItems, with batch processing enabled or disabled
InitBatch ==
    (BatchInit \/ ItemsInit) /\ RetryInit /\ ClassifyIdle /\ BuildIdle /\ ItemIdle /\ HashIdle
NextBatch == BatchNext /\ UNCHANGED <<pvars, cvars, ivars, hvars>>
SpecBatch == InitBatch /\ [][NextBatch]_vars

\* a run over items of any operation, in every processing mode
InitOperation ==
    OperationInit /\ RetryInit /\ ClassifyIdle /\ BuildIdle /\ ItemIdle /\ HashIdle
NextOperation == BatchNext /\ UNCHANGED <<pvars, cvars, ivars, hvars>>
SpecOperation == InitOperation /\ [][NextOperation]_vars

\* processBatchResponse applied to the response of one batch
InitResponse == ResponseInit /\ RetryInit /\ ClassifyIdle /\ BuildIdle /\ ItemIdle /\ HashIdle
NextResponse == ResponseNext /\ UNCHANGED <<rvars, pvars, cvars, ivars, hvars>>
SpecResponse == InitResponse /\ [][NextResponse]_vars

\* buildConversionPayload applied to the parameters of one item
InitBuild == BuildInit /\ RetryInit /\ ClassifyIdle /\ BatchIdle /\ ItemIdle /\ HashIdle
NextBuild == BuildNext /\ UNCHANGED <<rvars, pvars, bvars, ivars, hvars>>
SpecBuild == InitBuild /\ [][NextBuild]_vars

\* one item validated, built and uploaded
InitItem == ItemInit /\ RetryInit /\ ClassifyIdle /\ BatchIdle /\ HashIdle
NextItem == ItemNext /\ UNCHANGED <<rvars, pvars, bvars, hvars>>
SpecItem == InitItem /\ [][NextItem]_vars

\* hashString applied to one string
InitHash == HashInit /\ RetryInit /\ ClassifyIdle /\ BatchIdle /\ BuildIdle /\ ItemIdle
NextHash == HashNext /\ UNCHANGED <<rvars, pvars, bvars, cvars, ivars>>
SpecHash == InitHash /\ [][NextHash]_vars

\* ------------------------------------------------------------------------
\* Properties of the retry engine and the classifier
\* ------------------------------------------------------------------------

RECURSIVE SumSeq(_)
SumSeq(s) == IF s = <<>> THEN 0 ELSE Head(s) + SumSeq(Tail(s))

\* C1: whatever the failures of the wrapped operation, executeWithRetry
\* invokes it at most 4 times (1 initial try + 3 retries).
C1_AtMostFourInvocations == calls <= 4

\* the budget is used up: the fourth invocation failed and the call raised
C1_Witness == rpc = "raised" /\ calls = 4

C3_AuthValidationNeverRetried ==
    rpc = "sleeping" =>
        /\ lastError.kind \notin {"GoogleAdsAuthenticationError", "GoogleAdsValidationError"}
        /\ parseApiError(lastError).kind
               \notin {"GoogleAdsAuthenticationError", "GoogleAdsValidationError"}

\* C4: when executeWithRetry raises, what it raises is one of the four typed
\* errors built by the classifier, never the object the operation threw.
C4_RaisesClassifiedError ==
    rpc = "raised" => (raised.kind \in TypedKinds /\ raised.origin = "classifier")

\* the operation itself threw a typed error and the engine raised
C4_Witness ==
    /\ rpc = "raised"
    /\ lastError.kind = "GoogleAdsAuthenticationError"
    /\ lastError.origin = "operation"
    /\ raised # lastError

\* C5 (as claimed): after a 429 whose response carries retry-after: h the
\* engine sleeps min(h*1000, 30000) ms; with retry-after: 5 on the first two
\* attempts and success on the third the total wait is at least 10 s.
C5_RetryAfterHonoured ==
    /\ (rpc = "sleeping" /\ HttpCodeOf(lastError) = 429 /\ ParseInt(lastError.header) > 0)
           => delay = Min(ParseInt(lastError.header) * 1000, 30000)
    /\ (rpc = "returned" /\ calls = 3 /\ hinted) => SumSeq(delays) >= 10000

C7_ForbiddenIsAuthenticationError ==
    (ppc = "parsed" /\ perr \in HttpErrors /\ HttpCodeOf(perr) = 403) =>
        (pparsed.kind = "GoogleAdsAuthenticationError" /\ pparsed.hints)

\* C8 (as claimed): status 404 is classified as a ValidationError.
C8_NotFoundIsValidationError ==
    (ppc = "parsed" /\ perr \in HttpErrors /\ HttpCodeOf(perr) = 404) =>
        pparsed.kind = "GoogleAdsValidationError"

\* ------------------------------------------------------------------------
\* Properties of the batch coordinator
\* ------------------------------------------------------------------------

RECURSIVE Concat(_)
Concat(ss) == IF ss = <<>> THEN <<>> ELSE Head(ss) \o Concat(Tail(ss))

\* the places <<b, p>> of the index side-table that hold item index n
PlacesOf(n) ==
    { bp \in (1..Len(batchIndexMaps)) \X (1..MaxItems) :
        bp[2] <= Len(batchIndexMaps[bp[1]]) /\ batchIndexMaps[bp[1]][bp[2]] = n }

\* C9: once the built records are grouped, the batches concatenated in order
\* are the list of built records, the index side-table is cut the same way,
\* every item that was built sits at exactly one place, and the record at
\* each place is the one built from the item the side-table names there.
C9_BatchPartition ==
    batches # <<>> =>
        /\ Concat(batches) = conversions
        /\ Concat(batchIndexMaps) = itemIndexMap
        /\ Len(batchIndexMaps) = Len(batches)
        /\ \A b \in 1..Len(batches) :
              /\ Len(batchIndexMaps[b]) = Len(batches[b])
              /\ \A p \in 1..Len(batches[b]) :
                    batches[b][p] = Conversion(batchIndexMaps[b][p])
        /\ \A n \in 0..(Len(items) - 1) :
              Cardinality(PlacesOf(n)) = (IF items[n + 1] = "valid" THEN 1 ELSE 0)

\* two batches were formed and the first record was built from item 1,
\* item 0 having failed validation
C9_Witness ==
    /\ bpc = "batch"
    /\ Len(batches) = 2
    /\ items[1] = "invalid"
    /\ batchIndexMaps[1][1] = 1

\* the conversion indices named by the error list of a response
ReportedIndices(response) ==
    IF ~response.partialFailureError.present THEN {}
    ELSE { idx \in 0..MaxItems :
             \E d \in 1..Len(response.partialFailureError.details) :
                \E e \in 1..Len(response.partialFailureError.details[d]) :
                   \E k \in 1..Len(response.partialFailureError.details[d][e].location) :
                      response.partialFailureError.details[d][e].location[k].index = idx }

RecordsOf(n) == { p \in 1..Len(returnData) : returnData[p].itemIndex = n }

\* the requests that carry exactly the conversions of the items in indices
RequestsOf(indices) == { r \in 1..Len(requests) : requests[r].conversions = indices }

SetMax(S) == CHOOSE x \in S : \A y \in S : y <= x

SetMin(S) == CHOOSE x \in S : \A y \in S : x <= y

\* the last request sent for the items in indices was refused
UploadFailed(indices) ==
    /\ RequestsOf(indices) # {}
    /\ requests[SetMax(RequestsOf(indices))].outcome = "failed"

\* every record of the items in indices is a failure record
AllFailed(indices) ==
    \A k \in 1..Len(indices) :
        \A p \in RecordsOf(indices[k]) : returnData[p].success = FALSE

\* a request is in flight
InFlight == { r \in 1..Len(requests) : requests[r].outcome = "pending" }

\* C11: a run that returns without raising has emitted exactly one result
\* record per input item: every item index 0..N-1 is the itemIndex of exactly
\* one record, in batch mode and in the single-item path alike.
C11_OneRecordPerItem ==
    bpc = "done" =>
        /\ Len(returnData) = Len(items)
        /\ \A n \in 0..(Len(items) - 1) : Cardinality(RecordsOf(n)) = 1

\* a batch run returned after a validation failure, a failed batch and a
\* partial failure
C11_Witness ==
    /\ enableBatchProcessing
    /\ bpc = "done"
    /\ Len(items) = 3
    /\ \E p, q, r \in 1..Len(returnData) :
          /\ returnData[p].batchNumber = 0 /\ returnData[p].errorType # ""
          /\ returnData[q].batchNumber > 0 /\ returnData[q].errorType # ""
          /\ returnData[r].batchNumber > 0 /\ returnData[r].errorType = ""
          /\ ~returnData[r].success

\* C12 (as claimed): in batch mode the returned records are in ascending
\* item index order, also when items failed validation or batches failed.
C12_AscendingItemOrder ==
    (enableBatchProcessing /\ bpc = "done") =>
        \A p, q \in 1..Len(returnData) :
            p < q => returnData[p].itemIndex < returnData[q].itemIndex

CeilDiv(n, b) == (n + b - 1) \div b

\* C13: in batch mode with N valid items and effective batch size B, when
\* every upload succeeds at its first attempt the run sends ceil(N/B)
\* requests, each but the last with B conversions and the last with the rest.
C13_RequestsPerRun ==
    (/\ enableBatchProcessing
     /\ bpc = "done"
     /\ \A n \in 1..Len(items) : items[n] = "valid"
     /\ \A r \in 1..Len(requests) : requests[r].outcome = "ok"
     /\ \A p \in 1..Len(returnData) : returnData[p].errorType = "")
    => LET N == Len(items)
           B == actualBatchSize(batchSize)
       IN /\ Len(requests) = CeilDiv(N, B)
          /\ \A r \in 1..Len(requests) :
                Len(requests[r].conversions) =
                    (IF r < Len(requests) THEN B ELSE N - (Len(requests) - 1) * B)

\* three valid items in batches of two: a request of 2, then a request of 1
C13_Witness ==
    /\ enableBatchProcessing
    /\ bpc = "done"
    /\ batchSize = 2
    /\ Len(requests) = 2
    /\ requests[1] = Request(<<0, 1>>, PartialFailureFlag, "ok")
    /\ requests[2] = Request(<<2>>, PartialFailureFlag, "ok")

\* C14: in fail-fast mode no failure is turned into a record; the batch loop
\* only goes on past a batch whose refused requests were all retried and
\* answered; once a batch upload has failed the run has raised the error of
\* executeWithRetry, and no request of a later batch was sent.
C14_FailFastStops ==
    (enableBatchProcessing /\ batchProcessingMode = "failFast") =>
        /\ \A p \in 1..Len(returnData) : returnData[p].errorType = ""
        /\ bpc \in {"batch", "done"} =>
              \A b \in 1..Len(batches) : ~UploadFailed(batchIndexMaps[b])
        /\ (bpc = "raised" /\ batches # <<>>) =>
              /\ runError.kind \in TypedKinds
              /\ \A b \in 1..Len(batches) :
                    /\ b > batchIndex + 1 => RequestsOf(batchIndexMaps[b]) = {}
                    /\ b < batchIndex + 1 => ~UploadFailed(batchIndexMaps[b])
              /\ UploadFailed(batchIndexMaps[batchIndex + 1]) => runError.origin = "classifier"

\* the first of two batches failed after four refused requests: the run
\* raised the rate-limit error and nothing was sent for the second
C14_Witness ==
    /\ enableBatchProcessing
    /\ batchProcessingMode = "failFast"
    /\ bpc = "raised"
    /\ Len(batches) = 2
    /\ batchIndex = 0
    /\ Len(requests) = 4
    /\ runError.kind = "GoogleAdsRateLimitError"

\* C15: in continue-on-error and partial-failure modes the run never raises;
\* when it returns, every item of a batch whose upload failed has a
\* success:false record, and every batch, also one after a failed batch, was
\* sent (or failed before its request, in getCustomerId).
C15_ContinueRecordsFailure ==
    (enableBatchProcessing /\ batchProcessingMode # "failFast") =>
        /\ bpc # "raised"
        /\ bpc = "done" =>
              \A b \in 1..Len(batches) :
                 /\ \A k \in 1..Len(batchIndexMaps[b]) :
                       Cardinality(RecordsOf(batchIndexMaps[b][k])) = 1
                 /\ UploadFailed(batchIndexMaps[b]) => AllFailed(batchIndexMaps[b])
                 /\ \/ RequestsOf(batchIndexMaps[b]) # {}
                    \/ \A k \in 1..Len(batchIndexMaps[b]) :
                          \A p \in RecordsOf(batchIndexMaps[b][k]) :
                             returnData[p].errorType = "GoogleAdsAuthenticationError"

\* the first batch failed, both its items have failure records, and the
\* second batch was uploaded
C15_Witness ==
    /\ enableBatchProcessing
    /\ batchProcessingMode = "continueOnError"
    /\ bpc = "done"
    /\ Len(batches) = 2
    /\ Len(batchIndexMaps[1]) = 2
    /\ UploadFailed(batchIndexMaps[1])
    /\ AllFailed(batchIndexMaps[1])
    /\ requests[Len(requests)] = Request(batchIndexMaps[2], PartialFailureFlag, "ok")

\* C16: in batch mode no request carries the conversion of an item that
\* failed validation or building; in fail-fast mode such an item makes the
\* run raise with no request sent; in the other modes the item gets one
\* success:false record and, when the run returns, every valid item was sent
\* (or its batch failed before its request, in getCustomerId).
C16_InvalidItemsNeverUploaded ==
    enableBatchProcessing =>
        /\ \A r \in 1..Len(requests) :
              \A k \in 1..Len(requests[r].conversions) :
                 items[requests[r].conversions[k] + 1] = "valid"
        /\ \A n \in 0..(i - 1) :
              items[n + 1] = "invalid" =>
                 IF batchProcessingMode = "failFast"
                 THEN /\ bpc = "raised"
                      /\ runError.kind = "GoogleAdsValidationError"
                      /\ requests = <<>>
                 ELSE /\ Cardinality(RecordsOf(n)) = 1
                      /\ \A p \in RecordsOf(n) : returnData[p].success = FALSE
        /\ (batchProcessingMode # "failFast" /\ bpc = "done") =>
              \A n \in 0..(Len(items) - 1) :
                 items[n + 1] = "valid" =>
                    \/ \E r \in 1..Len(requests) :
                          \E k \in 1..Len(requests[r].conversions) :
                             requests[r].conversions[k] = n
                    \/ \A p \in RecordsOf(n) :
                          returnData[p].errorType = "GoogleAdsAuthenticationError"

\* item 1 of three failed validation: it has a failure record and the one
\* request of the run carried items 0 and 2
C16_Witness ==
    /\ enableBatchProcessing
    /\ batchProcessingMode = "partialFailure"
    /\ bpc = "done"
    /\ items = <<"valid", "invalid", "valid">>
    /\ requests = <<Request(<<0, 2>>, PartialFailureFlag, "ok")>>
    /\ ~returnData[1].success /\ returnData[1].itemIndex = 1

\* C17: at most one upload request is in flight; a request is sent only when
\* every earlier one has settled, and none is in flight during a back-off
\* sleep; the requests follow the order of the batches (of the items), and
\* while a request is in flight every item of an earlier batch (every earlier
\* item) already has its record.
C17_OneRequestInFlight ==
    /\ Cardinality(InFlight) <= 1
    /\ rpc \in {"sleeping", "idle", "returned", "raised"} => InFlight = {}
    /\ \A r \in InFlight : r = Len(requests) /\ requests[r].conversions = CurrentIndices
    /\ \A r, q \in 1..Len(requests) :
          r < q => requests[r].conversions[1] <= requests[q].conversions[1]
    /\ InFlight # {} =>
          IF enableBatchProcessing
          THEN \A b \in 1..batchIndex :
                  \A k \in 1..Len(batchIndexMaps[b]) : RecordsOf(batchIndexMaps[b][k]) # {}
          ELSE \A n \in 0..(i - 1) : RecordsOf(n) # {}

\* the request of the second batch is in flight after the first batch was
\* retried and answered
C17_Witness ==
    /\ enableBatchProcessing
    /\ bpc = "uploading"
    /\ batchIndex = 1
    /\ Len(requests) = 3
    /\ requests[1].outcome = "failed"
    /\ requests[2].outcome = "ok"
    /\ requests[3] = Request(batchIndexMaps[2], PartialFailureFlag, "pending")

\* C18: in the single-item path, with continue-on-fail the run never raises,
\* every item dealt with has one record, a failed item a success:false one,
\* and when the run returns every valid item was sent (or failed before its
\* request); without continue-on-fail no failure record is emitted, the run
\* has raised as soon as an item has failed, and no request was sent for a
\* later item.
C18_ItemFailurePolicy ==
    ~enableBatchProcessing =>
        /\ \A n \in 0..(i - 1) :
              /\ Cardinality(RecordsOf(n)) = 1
              /\ (items[n + 1] = "invalid" \/ UploadFailed(<<n>>)) => AllFailed(<<n>>)
        /\ continueOnFail =>
              /\ bpc # "raised"
              /\ bpc = "done" =>
                    \A n \in 0..(Len(items) - 1) :
                       items[n + 1] = "valid" =>
                          \/ RequestsOf(<<n>>) # {}
                          \/ \A p \in RecordsOf(n) :
                                returnData[p].errorType = "GoogleAdsAuthenticationError"
        /\ ~continueOnFail =>
              /\ \A p \in 1..Len(returnData) : returnData[p].success
              /\ bpc \in {"item", "done"} =>
                    \A n \in 0..(Len(items) - 1) :
                       (n < i => items[n + 1] = "valid") /\ ~UploadFailed(<<n>>)
              /\ bpc = "raised" =>
                    /\ runError.kind \in TypedKinds
                    /\ \A n \in (i + 1)..(Len(items) - 1) : RequestsOf(<<n>>) = {}

\* with continue-on-fail, item 0 failed at upload and item 1 was uploaded
C18_Witness ==
    /\ ~enableBatchProcessing
    /\ continueOnFail
    /\ bpc = "done"
    /\ Len(items) = 2
    /\ UploadFailed(<<0>>)
    /\ ~returnData[1].success
    /\ returnData[2].success
    /\ requests[Len(requests)] = Request(<<1>>, PartialFailureFlag, "ok")

\* C19: with batching disabled every request carries one conversion, and a
\* valid item whose first request is answered caused exactly one request and
\* has, once the item is dealt with, one record, with success true.
C19_SingleUpload ==
    ~enableBatchProcessing =>
        /\ \A r \in 1..Len(requests) : Len(requests[r].conversions) = 1
        /\ \A n \in 0..(Len(items) - 1) :
              (/\ RequestsOf(<<n>>) # {}
               /\ requests[SetMin(RequestsOf(<<n>>))].outcome = "ok") =>
                  /\ items[n + 1] = "valid"
                  /\ Cardinality(RequestsOf(<<n>>)) = 1
                  /\ n < i => /\ Cardinality(RecordsOf(n)) = 1
                              /\ \A p \in RecordsOf(n) : returnData[p].success

\* a run of one valid item returned after one request
C19_Witness ==
    /\ ~enableBatchProcessing
    /\ bpc = "done"
    /\ items = <<"valid">>
    /\ requests = <<Request(<<0>>, PartialFailureFlag, "ok")>>
    /\ returnData[1].success
    /\ returnData[1].message = "Conversion uploaded successfully"

\* ------------------------------------------------------------------------
\* Properties of buildConversionPayload
\* ------------------------------------------------------------------------

IdentityFields == {"gclid", "gbraid", "wbraid", "userIdentifiers"}

\* the identity fields set on a conversion record
Populated(conversion) ==
    { f \in IdentityFields :
        IF f = "userIdentifiers"
        THEN conversion[f] # NoIdentifiers /\ Len(conversion[f]) > 0
        ELSE conversion[f] # Undefined /\ Len(conversion[f]) > 0 }

\* the identity field that goes with an identification method
FieldOf(method) == IF method = "enhanced" THEN "userIdentifiers" ELSE method

\* the parameters give nothing for the selected method
NoIdentifier(p) ==
    CASE p.identificationMethod = "gclid" -> p.gclid = <<>>
      [] p.identificationMethod = "gbraid" -> p.gbraid = <<>>
      [] p.identificationMethod = "wbraid" -> p.wbraid = <<>>
      [] p.identificationMethod = "enhanced" ->
            p.email = <<>> /\ p.phoneNumber = <<>> /\ p.firstName = <<>> /\ p.city = <<>>
      [] OTHER -> TRUE

\* C20: a record built by buildConversionPayload has exactly one of gclid,
\* gbraid, wbraid and userIdentifiers set, the one selected by
\* identificationMethod, whatever the other parameters hold; with no
\* identifier given for the selected method the call throws.
C20_IdentityExclusivity ==
    cpc = "built" =>
        /\ built.thrown = "" =>
              Populated(built) = {FieldOf(params.identificationMethod)}
        /\ NoIdentifier(params) => built.thrown # ""

\* a wbraid record was built although a gclid and an email were given too
C20_Witness ==
    /\ cpc = "built"
    /\ params.identificationMethod = "wbraid"
    /\ params.gclid # <<>>
    /\ params.email # <<>>
    /\ built.thrown = ""
    /\ built.wbraid = params.wbraid
    /\ built.gclid = Undefined

\* ------------------------------------------------------------------------
\* Properties of one item: validation, hashing, conversion time
\* ------------------------------------------------------------------------

\* the parameters give nothing but blanks for the selected method, or the
\* method is none of the four
NoIdentityGiven(p) ==
    CASE p.identificationMethod = "gclid" -> Blank(p.gclid)
      [] p.identificationMethod = "gbraid" -> Blank(p.gbraid)
      [] p.identificationMethod = "wbraid" -> Blank(p.wbraid)
      [] p.identificationMethod = "enhanced" ->
            Blank(p.email) /\ Blank(p.phoneNumber) /\ Blank(p.firstName)
      [] OTHER -> TRUE

\* C21: an item whose click id (gclid, gbraid, wbraid) is empty or blank,
\* whose enhanced data has none of email, phone, first name, last name and
\* street address, or whose method is none of the four, is rejected by
\* validateInputParameters with a GoogleAdsValidationError; no record is
\* built for it and uploadConversion is never called.
C21_IdentityValidation ==
    (vpc # "input" /\ NoIdentityGiven(params)) =>
        /\ validation.thrown = "GoogleAdsValidationError"
        /\ vpc = "rejected"
        /\ built = NotBuilt
        /\ ~uploaded

\* an enhanced item with a city and nothing else was rejected
C21_Witness ==
    /\ vpc = "rejected"
    /\ params.identificationMethod = "enhanced"
    /\ params.conversionAction # <<>>
    /\ params.city = <<" ", "A">>
    /\ params.email = <<>> /\ params.phoneNumber = <<>> /\ params.firstName = <<>>
    /\ validation = Rejected("GoogleAdsValidationError", "userIdentifiers")
    /\ ~uploaded

\* lower-casing gives the same text whether or not the string was
\* upper-cased first
CaseRoundTrips(str) == ToLowerCase(ToUpperCase(str)) = ToLowerCase(str)

\* C22 as stated: for every non-empty string s the digest of
\* ' ' + upper(s) + ' ' is the digest of s, and an empty or whitespace-only
\* string gives the empty string.
C22_HashNormalization ==
    hpc = "hashed" =>
        /\ hinput # <<>> => hashed.padded = hashed.plain
        /\ Trim(hinput) = <<>> => hashed.plain = <<>>

\* C22 amended: for every non-empty string s whose lower-case form survives
\* an upper-casing (every ASCII string does) the digest of
\* ' ' + upper(s) + ' ' is the digest of s; an empty or whitespace-only
\* string gives the empty string, and no other string does.
C22_HashNormalizationRoundTrip ==
    hpc = "hashed" =>
        /\ (hinput # <<>> /\ CaseRoundTrips(hinput)) => hashed.padded = hashed.plain
        /\ (Trim(hinput) = <<>>) <=> (hashed.plain = <<>>)
        /\ Trim(hinput) # <<>> => hashed.plain = Sha256(Trim(ToLowerCase(hinput)))

\* ' Aa' and ' ' + ' AA' + ' ' have the digest of 'aa'
C22_Witness ==
    /\ hpc = "hashed"
    /\ hinput = <<" ", "A", "a">>
    /\ hashed.plain = Sha256(<<"a", "a">>)
    /\ hashed.padded = hashed.plain

\* the hashed values one user identifier carries
HashedValues(identifier) ==
    IF "hashedEmail" \in DOMAIN identifier THEN {identifier.hashedEmail}
    ELSE IF "hashedPhoneNumber" \in DOMAIN identifier THEN {identifier.hashedPhoneNumber}
    ELSE {identifier.addressInfo.hashedFirstName, identifier.addressInfo.hashedCity}
         \ {Undefined}

\* C23: in an uploaded enhanced record every hashed field (hashedEmail,
\* hashedPhoneNumber, each field of addressInfo) is non-empty: a field whose
\* input is empty or blank is left out, and addressInfo is there only if one
\* of its components is present.
C23_NoEmptyHashedField ==
    (uploaded /\ params.identificationMethod = "enhanced") =>
        \A k \in 1..Len(built.userIdentifiers) :
            LET identifier == built.userIdentifiers[k] IN
            /\ <<>> \notin HashedValues(identifier)
            /\ "addressInfo" \in DOMAIN identifier =>
                  (~Blank(params.firstName) \/ ~Blank(params.city))

\* the instant a conversionDateTime value names, NaN when it names none
InstantOf(v) ==
    LET w == IF v.type = "array" /\ Len(v.elements) > 0 THEN v.elements[1] ELSE v IN
    IF Falsy(w) THEN NaN
    ELSE IF w.type \in {"string", "object"} THEN NewDate(w.text)
    ELSE IF w.type \in {"number", "date"} THEN w.t
    ELSE NaN

\* the parameters other than the conversion time pass validation
OtherwiseValid(p) == ~Blank(p.conversionAction) /\ ~NoIdentityGiven(p)

\* validateInputParameters has just returned or thrown: now is the clock of
\* its future test
JustValidated == vpc \in {"validated", "rejected"}

\* C24 as stated: a conversion time strictly after the current time is
\* rejected with a GoogleAdsValidationError, one equal to the current time
\* or before it is accepted.
C24_FutureRejected ==
    (JustValidated /\ InstantOf(dateTimeValue) # NaN) =>
        /\ InstantOf(dateTimeValue) > now =>
              validation.thrown = "GoogleAdsValidationError"
        /\ (InstantOf(dateTimeValue) <= now /\ OtherwiseValid(params)) =>
              validation = Accepted

\* the start of the second an instant lies in
SecondOf(t) == t - (t % 1000)

\* C24 amended: a conversion time whose whole second is strictly after the
\* current time, as every time one second or more in the future is, is
\* rejected with a GoogleAdsValidationError on conversionDateTime; one whose
\* whole second is the current time or before it is accepted.
C24_FutureSecondRejected ==
    (JustValidated /\ InstantOf(dateTimeValue) # NaN /\ OtherwiseValid(params)) =>
        /\ SecondOf(InstantOf(dateTimeValue)) > now =>
              validation = Rejected("GoogleAdsValidationError", "conversionDateTime")
        /\ InstantOf(dateTimeValue) >= now + 1000 =>
              validation = Rejected("GoogleAdsValidationError", "conversionDateTime")
        /\ SecondOf(InstantOf(dateTimeValue)) <= now => validation = Accepted

\* a numeric conversion time one second after the clock was rejected
C24_Witness ==
    /\ vpc = "rejected"
    /\ OtherwiseValid(params)
    /\ dateTimeValue.type = "number"
    /\ dateTimeValue.t = now + 1000
    /\ validation = Rejected("GoogleAdsValidationError", "conversionDateTime")
    /\ ~uploaded

\* no conversion time was given, or a string that is no date
MissingOrMalformed(v) ==
    \/ v = Missing
    \/ v.type = "string" /\ v.text \in {EmptyText, InvalidText}

\* C25: an item whose conversion time is missing or malformed (such as
\* 'invalid-date-format') is rejected with a GoogleAdsValidationError on
\* conversionDateTime and is not uploaded.
C25_BadTimestampRejected ==
    (vpc # "input" /\ MissingOrMalformed(dateTimeValue) /\ OtherwiseValid(params)) =>
        /\ validation = Rejected("GoogleAdsValidationError", "conversionDateTime")
        /\ ~uploaded

\* a value that is there and names no instant: a text that is no date, an
\* invalid Date, or an array that starts with one of them
Unparseable(v) ==
    LET w == IF v.type = "array" /\ Len(v.elements) > 0 THEN v.elements[1] ELSE v IN
    \/ w.type \in {"string", "object"} /\ w.text = InvalidText
    \/ w.type = "date" /\ w.t = NaN

C27_WireFormat ==
    vpc \in {"built", "uploaded"} => conversionDateTime.fmt = "wire"

\* ------------------------------------------------------------------------
\* Properties of the batch size, the backoff delay and the failure records
\* ------------------------------------------------------------------------

C29_BackoffBounds ==
    (ppc = "delayed" /\ pattempt \in 0..3 /\ perr.retryAfter <= 0) =>
        LET exponentialDelay == 1000 * Pow2(pattempt) IN
        /\ pdelay \in 1000..30000
        /\ 4 * pdelay <= 5 * exponentialDelay
        /\ pdelay > 1000 => 4 * pdelay >= 3 * exponentialDelay

\* the shortest delay before retry 3: 8000 ms less a quarter
C29_Witness ==
    /\ ppc = "delayed"
    /\ pattempt = 3
    /\ perr.retryAfter = 0
    /\ pdelay = 6000

\* C30: every record with success false carries an error type and a
\* message, whether it comes from the item path, from a validation failure
\* before the batches, from a failed batch or from the partial failure
\* reported for a batch.
C30_FailureRecordsTyped ==
    \A p \in 1..Len(returnData) :
        ~returnData[p].success =>
            /\ returnData[p].errorType # ""
            /\ returnData[p].error # "" \/ returnData[p].message # ""

\* the requests whose body carries the conversion of item n
RequestsWith(n) ==
    { r \in 1..Len(requests) :
        \E k \in 1..Len(requests[r].conversions) : requests[r].conversions[k] = n }

\* C31: in every processing mode no upload request carries an item whose
\* operation is not uploadClickConversion, and whatever is recorded for such an
\* item is a failure of kind GoogleAdsValidationError.
C31_UnsupportedOperationRejected ==
    \A n \in 0..(Len(items) - 1) :
        items[n + 1] = "unsupported" =>
            /\ RequestsWith(n) = {}
            /\ \A p \in RecordsOf(n) :
                  /\ ~returnData[p].success
                  /\ returnData[p].errorType = "GoogleAdsValidationError"

\* C34: a request sent with batching enabled carries partial_failure=true
\* exactly when batchProcessingMode is partialFailure; a request sent with
\* batching disabled carries it whatever mode is selected.
C34_PartialFailureFlag ==
    \A r \in 1..Len(requests) :
        IF enableBatchProcessing
        THEN requests[r].partialFailure <=> (batchProcessingMode = "partialFailure")
        ELSE requests[r].partialFailure

\* a continue-on-error run of two batches ended, both requests without the flag
C34_Witness ==
    /\ enableBatchProcessing
    /\ batchProcessingMode = "continueOnError"
    /\ bpc = "done"
    /\ Len(requests) = 2
    /\ ~requests[1].partialFailure
    /\ ~requests[2].partialFailure

\* C32 as stated: when the conversion action is given and the account
\* identifier has no digit, building the record fails with GoogleAdsApiError.
C32_NoDigitsApiError ==
    (cpc = "built" /\ params.conversionAction # <<>> /\ Digits(customerId) = <<>>)
        => built.thrown = "GoogleAdsApiError"

\* C32: when the conversion action is given and the account identifier has no
\* digit, building the record fails with GoogleAdsAuthenticationError; with
\* at least one digit the account identifier makes no build fail.
C32_NoDigitsAuthenticationError ==
    (cpc = "built" /\ params.conversionAction # <<>>)
        => IF Digits(customerId) = <<>>
           THEN built.thrown = "GoogleAdsAuthenticationError"
           ELSE built.thrown \in {"", "NodeOperationError"}

\* an identifier of separators only made the build fail
C32_Witness ==
    /\ cpc = "built"
    /\ params.conversionAction # <<>>
    /\ customerId = <<"-">>
    /\ built.thrown = "GoogleAdsAuthenticationError"

\* C33: when every operation invocation and every back-off sleep completes, a
\* call of executeWithRetry that has started ends: it returns, or it raises,
\* and it raises only on an error that is not retryable or with the attempt
\* budget used up.
C33_Terminates ==
    /\ (rpc \in {"attempting", "sleeping"}) ~> (rpc \in {"returned", "raised"})
    /\ [](rpc = "raised" =>
            \/ attempt >= getRetryConfig.maxRetries
            \/ ~shouldRetry(lastError, attempt, getRetryConfig))

\* the call raised after its fourth invocation failed with a retryable error
C33_Witness ==
    /\ rpc = "raised"
    /\ calls = getRetryConfig.maxRetries + 1
    /\ attempt = getRetryConfig.maxRetries
    /\ shouldRetry(lastError, 0, getRetryConfig)

\* C36: a back-off sleep follows a failed invocation and precedes the next
\* one: while an invocation or a sleep is pending there are as many sleeps as
\* settled invocations, and when the call has returned or raised there is one
\* sleep fewer than invocations, so none after the last invocation.
C36_SleepsBetweenAttempts ==
    /\ rpc \in {"attempting", "sleeping"} => Len(delays) = calls
    /\ rpc \in {"returned", "raised"} => Len(delays) = calls - 1

\* the third invocation failed with an error that is not retryable: three
\* invocations, two sleeps
C36_Witness ==
    /\ rpc = "raised"
    /\ calls = 3
    /\ Len(delays) = 2
    /\ ~shouldRetry(lastError, 0, getRetryConfig)

\* C37: the typed error raised by executeWithRetry is the classification of
\* the error thrown by the last invocation.
C37_RaisesLastError ==
    rpc = "raised" => raised = parseApiError(lastError)

\* the first invocation was refused with a rate limit (a sleep of the 5 s it
\* asked for), the second with status 400: a validation error is raised
C37_Witness ==
    /\ rpc = "raised"
    /\ calls = 2
    /\ delays = <<5000>>
    /\ HttpCodeOf(lastError) = 400
    /\ raised = GoogleAdsValidationError("classifier")

\* the upload of the batch (or item) of request r was given up on a rate
\* limit, an error the policy retries as long as the budget lasts
GaveUpOnRateLimit(r) ==
    \/ \E k \in 1..Len(requests[r].conversions) :
          \E p \in RecordsOf(requests[r].conversions[k]) :
             returnData[p].errorType = "GoogleAdsRateLimitError"
    \/ /\ bpc = "raised"
       /\ runError.kind = "GoogleAdsRateLimitError"
       /\ r = Len(requests)

\* C35: every batch (or item) of a run has the whole budget of four requests,
\* whatever earlier batches used: while an upload is under way the attempt
\* counter is the number of refused requests of that batch alone, no batch
\* has more than four requests, and a batch given up on a rate limit had all
\* four.
C35_FreshBudgetPerBatch ==
    /\ (bpc = "uploading" /\ rpc = "attempting") =>
          attempt = Cardinality(RequestsOf(CurrentIndices)) - 1
    /\ \A r \in 1..Len(requests) :
          /\ Cardinality(RequestsOf(requests[r].conversions)) <= getRetryConfig.maxRetries + 1
          /\ GaveUpOnRateLimit(r) =>
                Cardinality(RequestsOf(requests[r].conversions)) = getRetryConfig.maxRetries + 1

\* both batches of a continue-on-error run used their four requests
C35_Witness ==
    /\ enableBatchProcessing
    /\ batchProcessingMode = "continueOnError"
    /\ bpc = "done"
    /\ Len(batches) = 2
    /\ Len(requests) = 8
    /\ \A r \in 1..8 : requests[r].outcome = "failed"
    /\ \A p \in 1..Len(returnData) : returnData[p].errorType = "GoogleAdsRateLimitError"

\* C38: in the single-item path a record with success true is pushed for an
\* item only when the response to its upload carries no partialFailureError.
C38_SuccessOnlyWithoutPartialFailure ==
    [][(/\ ~enableBatchProcessing
        /\ bpc = "uploading"
        /\ Len(returnData') = Len(returnData) + 1
        /\ returnData'[Len(returnData')].success)
           => ~batchResponse.partialFailureError.present]_vars

\* the errors a response reports
ReportedErrors(response) ==
    { <<d, e>> \in (1..MaxErrors) \X (1..MaxErrors) :
        /\ d <= Len(response.partialFailureError.details)
        /\ e <= Len(response.partialFailureError.details[d]) }

\* C39: when the response to a batch carries a partialFailureError with at
\* least one error, at least one record of the batch has success false.
C39_PartialFailureMarksAnItem ==
    (/\ bpc = "attributed"
     /\ batchResponse.partialFailureError.present
     /\ ReportedErrors(batchResponse) # {})
        => \E p \in 1..Len(returnData) : ~returnData[p].success

====
